---- MODULE Spec2Model ----
(***************************************************************************)
(* A model of the LiveKit + Twilio voice-agent glue code:                  *)
(*   - utils/validators.py      phone-number formatter and validator       *)
(*   - services/*.py            dispatch requester and call requester      *)
(*   - scripts/test_call.py, test_outbound.py   the test-call workflows    *)
(*   - agent/agent.py, voice_agent.py           the worker entrypoints     *)
(*   - scripts/update_twilio_trunk*.py, setup_twilio_trunk.py              *)
(*                              the telephony-provider provisioning        *)
(*                                                                         *)
(* Text is modelled as a sequence of characters.  A character is a         *)
(* one-letter string, except two tokens that stand for one character each: *)
(* "LF" (a line feed) and "u0663" (ARABIC-INDIC DIGIT THREE, a character   *)
(* for which Python's \d holds and which is not in 0-9).                   *)
(***************************************************************************)
EXTENDS Integers, Sequences, FiniteSets, TLC

VARIABLES
    (* utils/validators.py exercised on its own *)
    ppc,        \* "off", "input", "formatted", "validated"
    praw,       \* the text given
    pfmt,       \* format_phone_number(praw)
    pagain,     \* format_phone_number(pfmt)
    pvalid,     \* validate_phone_number(praw)
    (* one job of the worker entrypoint *)
    wpc,        \* "none", "parse", "connect", "session", "handlers", "branch", "done", "failed"
    wentry,     \* "agent" (agent/agent.py) or "voice_agent" (voice_agent.py)
    wmeta,      \* ctx.job.metadata: NoText for None, else its text
    wphone,     \* the local phone_number: a decoded value
    wsteps,     \* the steps the entrypoint has completed, in order
    werr,       \* "" or the exception that ended the entrypoint
    wgreets,    \* number of generate_reply calls
    wevents,    \* the participant events the room has emitted to the callbacks
    (* the media platform as the services see it *)
    lkreqs,     \* the requests issued to the media platform, in order
    dispatches, \* the dispatches the platform holds
    (* DispatchService / SIPManager methods called on their own *)
    spc,        \* "off", "call", "returned"
    sargs,      \* the method and its arguments
    sout,       \* what the method returned or raised
    sanswer,    \* how the platform answered: "none" (not asked), "ok", "failed"
    (* the test-call scripts: scripts/test_call.py and test_outbound.py *)
    cpc,        \* "off", "dispatch", "sleep", "call", "finally", "done", "raised"
    cscript,    \* "test_call" (make_test_call) or "test_outbound" (make_call)
    craw,       \* the phone number given on the command line
    ctrunk,     \* the --trunk-id argument, NoText when not given
    cenvtrunk,  \* LIVEKIT_OUTBOUND_TRUNK_ID, NoText when unset
    cinfo,      \* dispatch_info (make_test_call), room_name (make_call)
    celapsed,   \* seconds of asyncio.sleep(5) that have passed
    cerr,       \* "" or the exception that ended the script
    ccloses,    \* how often each API client was closed
    (* the telephony-provider provisioning scripts *)
    tpc,        \* "off", "start", the request to issue next, "done", "raised"
    tscript,    \* "update", "auto" or "create"
    tenv,       \* config/twilio_config.py: the environment values, "" when unset
    targs,      \* the arguments of the function
    tw,         \* what the provider holds: credential lists, trunks, numbers
    tlocal,     \* local variables: livekit_cred_list.sid, trunk.sid
    treqs,      \* the requests of this run, in order
    tfail,      \* position in treqs of the first request that failed, 0 if none
    terr,       \* "" or how the run ended in error
    trun,       \* 1 for the first run, 2 for the re-run
    tcreates,   \* create requests that succeeded in this run
    tsnap,      \* tw before the first run, and how the previous run left it
    tclean,     \* no request has failed in any run so far
    (* the media-platform trunk scripts: scripts/create_inbound_trunk.py and
       scripts/create_outbound_trunk.py *)
    kpc,        \* "off", "start", the request to issue next, "close", "done", "raised"
    kscript,    \* "inbound" (create_inbound_trunk) or "outbound" (create_outbound_trunk)
    kenv,       \* config/livekit_config.py: the environment values, "" when unset
    kargs,      \* the arguments of the function
    kreqs,      \* the requests issued to the media platform, in order
    kheld,      \* the SIP trunks and dispatch rules the platform holds
    kerr,       \* "" or the exception the function raised
    ktrunk,     \* the local trunk.sip_trunk_id, 0 before the trunk is created
    kresult,    \* the record the function returned
    kcloses,    \* aclose() calls on the API client
    (* several jobs of the worker entrypoint, run by one worker process *)
    jobs,       \* for each job: its entrypoint's position and local variables
    (* config/livekit_config.py and config/twilio_config.py called on their own *)
    gpc,        \* "off", "call", "returned", "raised"
    gfn,        \* "livekit" (validate_livekit_config) or "twilio" (validate_twilio_config)
    environ,    \* os.environ when the module was imported: Unset, "" or a value
    gout        \* what the call returned, and the message of what it raised

pvars == <<ppc, praw, pfmt, pagain, pvalid>>
wvars == <<wpc, wentry, wmeta, wphone, wsteps, werr, wgreets, wevents>>
lkvars == <<lkreqs, dispatches>>
svars == <<spc, sargs, sout, sanswer>>
cvars == <<cpc, cscript, craw, ctrunk, cenvtrunk, cinfo, celapsed, cerr, ccloses>>
tvars == <<tpc, tscript, tenv, targs, tw, tlocal, treqs, tfail, terr, trun, tcreates,
           tsnap, tclean>>

kvars == <<kpc, kscript, kenv, kargs, kreqs, kheld, ktrunk, kerr, kresult, kcloses>>

jvars == <<jobs>>
gvars == <<gpc, gfn, environ, gout>>

vars == <<pvars, wvars, lkvars, svars, cvars, tvars, kvars, jvars, gvars>>

\* what a step of one part leaves alone
OnlyPhone == UNCHANGED <<wvars, lkvars, svars, cvars, tvars, kvars, jvars, gvars>>
OnlyWorker == UNCHANGED <<pvars, lkvars, svars, cvars, tvars, kvars, jvars, gvars>>
OnlyService == UNCHANGED <<pvars, wvars, cvars, tvars, kvars, jvars, gvars>>
OnlyScript == UNCHANGED <<pvars, wvars, svars, tvars, kvars, jvars, gvars>>
OnlyTwilio == UNCHANGED <<pvars, wvars, lkvars, svars, cvars, kvars, jvars, gvars>>
OnlyTrunk == UNCHANGED <<pvars, wvars, lkvars, svars, cvars, tvars, jvars, gvars>>
OnlyJobs == UNCHANGED <<pvars, wvars, lkvars, svars, cvars, tvars, kvars, gvars>>
OnlyConfig == UNCHANGED <<pvars, wvars, lkvars, svars, cvars, tvars, kvars, jvars>>

----------------------------------------------------------------------------
(* Characters and text helpers *)

LF == "LF"
U0663 == "u0663"

AsciiDigits == {"0", "1", "2", "3", "4", "5", "6", "7", "8", "9"}

\* [1-9] in the pattern of validate_phone_number
NonZeroAsciiDigits == AsciiDigits \ {"0"}

\* Python 3 str patterns: \d matches every Unicode decimal digit
IsDigitClass(c) == c \in AsciiDigits \cup {U0663}

\* the characters of the model for which \d holds
DigitChars == {c \in AsciiDigits \cup {U0663} : IsDigitClass(c)}

RECURSIVE FilterSeq(_, _)
FilterSeq(s, keep) ==
    IF s = <<>> THEN <<>>
    ELSE IF Head(s) \in keep THEN <<Head(s)>> \o FilterSeq(Tail(s), keep)
    ELSE FilterSeq(Tail(s), keep)

StartsWith(s, p) == Len(s) >= Len(p) /\ SubSeq(s, 1, Len(p)) = p

\* Python's `needle in hay` for str
Contains(hay, needle) ==
    \E i \in 0..(Len(hay) - Len(needle)) :
        SubSeq(hay, i + 1, i + Len(needle)) = needle

\* Python's None where a text may stand
NoText == <<"<none>">>

\* all sequences over alphabet a of length <= n
SeqsUpTo(a, n) == UNION {[1..k -> a] : k \in 0..n}

----------------------------------------------------------------------------
(* utils/validators.py *)

\* re.match(r'^\+[1-9]\d{1,14}$', phone_number): '$' matches at the end of the
\* text and also just before a line feed that ends the text.
\* a validator whose pattern reads \d where it should read [1-9]
validate_phone_number_anyfirst(s) ==
    \E n \in 1..14 :
        /\ Len(s) \in {2 + n, 3 + n}
        /\ s[1] = "+"
        /\ IsDigitClass(s[2])
        /\ \A i \in 3..(2 + n) : IsDigitClass(s[i])
        /\ Len(s) = 3 + n => s[3 + n] = LF

validate_phone_number(s) ==
    \E n \in 1..14 :
        /\ Len(s) \in {2 + n, 3 + n}
        /\ s[1] = "+"
        /\ s[2] \in NonZeroAsciiDigits
        /\ \A i \in 3..(2 + n) : IsDigitClass(s[i])
        /\ Len(s) = 3 + n => s[3 + n] = LF

\* the variant that prepends '+' without looking at the first character
format_phone_number_prepends(s) == <<"+">> \o FilterSeq(s, DigitChars \cup {"+"})

\* re.sub(r'[^\d+]', '', phone_number): keeps every digit and every '+',
\* wherever the '+' stands; then '+' is prepended unless the text starts with it.
format_phone_number(s) ==
    LET cleaned == FilterSeq(s, DigitChars \cup {"+"})
    IN  IF StartsWith(cleaned, <<"+">>) THEN cleaned ELSE <<"+">> \o cleaned

\* E.164 as the documentation states it: '+', a first digit 1-9, 1 to 14
\* further digits 0-9, and nothing else.
IsE164(s) ==
    /\ Len(s) \in 3..16
    /\ s[1] = "+"
    /\ s[2] \in NonZeroAsciiDigits
    /\ \A i \in 3..Len(s) : s[i] \in AsciiDigits

----------------------------------------------------------------------------
(* json.dumps / json.loads, as the dispatch metadata and the worker use them *)

Quote == "\""
Backslash == "\\"

Str_phone_number == <<"p", "h", "o", "n", "e", "_", "n", "u", "m", "b", "e", "r">>

\* json.dumps escapes (ensure_ascii): quote, backslash, control and non-ASCII
EscapeChar(c) ==
    CASE c = Quote -> <<Backslash, Quote>>
      [] c = Backslash -> <<Backslash, Backslash>>
      [] c = LF -> <<Backslash, "n">>
      [] c = U0663 -> <<Backslash, "u", "0", "6", "6", "3">>
      [] OTHER -> <<c>>

RECURSIVE EscapeStr(_)
EscapeStr(s) ==
    IF s = <<>> THEN <<>> ELSE EscapeChar(Head(s)) \o EscapeStr(Tail(s))

json_dumps_str(s) == <<Quote>> \o EscapeStr(s) \o <<Quote>>

\* a producer that names the field "phone"
json_dumps_phone_key(p) ==
    <<"{">> \o json_dumps_str(SubSeq(Str_phone_number, 1, 5)) \o <<":", " ">>
            \o json_dumps_str(p) \o <<"}">>

\* json.dumps({"phone_number": p}) with the default separators
json_dumps_phone(p) ==
    <<"{">> \o json_dumps_str(Str_phone_number) \o <<":", " ">>
            \o json_dumps_str(p) \o <<"}">>

JsonWs == {" ", LF}

HexChars == AsciiDigits \cup {"a", "b", "c", "d", "e", "f"}

\* the character a \uXXXX escape stands for
CodePointChar(h) ==
    IF h = <<"0", "0", "0", "a">> THEN LF
    ELSE IF h[1] = "0" /\ h[2] = "0" /\ h[3] = "3" /\ h[4] \in AsciiDigits THEN h[4]
    ELSE "u" \o h[1] \o h[2] \o h[3] \o h[4]

ParseFail == [ok |-> FALSE, kind |-> "error", val |-> <<>>, next |-> 0]
Parsed(k, v, n) == [ok |-> TRUE, kind |-> k, val |-> v, next |-> n]

RECURSIVE SkipWs(_, _)
SkipWs(t, i) == IF i <= Len(t) /\ t[i] \in JsonWs THEN SkipWs(t, i + 1) ELSE i

RECURSIVE DigitRun(_, _)
DigitRun(t, i) ==
    IF i <= Len(t) /\ t[i] \in AsciiDigits THEN DigitRun(t, i + 1) ELSE i

\* the text of a string after its opening quote; acc is what was read so far
RECURSIVE ParseStrBody(_, _, _)
ParseStrBody(t, i, acc) ==
    IF i > Len(t) THEN ParseFail
    ELSE IF t[i] = Quote THEN Parsed("str", acc, i + 1)
    ELSE IF t[i] = LF THEN ParseFail
    ELSE IF t[i] # Backslash THEN ParseStrBody(t, i + 1, Append(acc, t[i]))
    ELSE IF i + 1 > Len(t) THEN ParseFail
    ELSE IF t[i + 1] \in {Quote, Backslash, "/"}
         THEN ParseStrBody(t, i + 2, Append(acc, t[i + 1]))
    ELSE IF t[i + 1] = "n" THEN ParseStrBody(t, i + 2, Append(acc, LF))
    ELSE IF /\ t[i + 1] = "u"
            /\ i + 5 <= Len(t)
            /\ \A k \in (i + 2)..(i + 5) : t[k] \in HexChars
         THEN ParseStrBody(t, i + 6, Append(acc, CodePointChar(SubSeq(t, i + 2, i + 5))))
    ELSE ParseFail

\* an integer: -? (0 | [1-9][0-9]*)
ParseNumber(t, i) ==
    LET j == IF t[i] = "-" THEN i + 1 ELSE i
    IN  IF j > Len(t) \/ t[j] \notin AsciiDigits THEN ParseFail
        ELSE LET k == IF t[j] = "0" THEN j + 1 ELSE DigitRun(t, j)
             IN  Parsed("num", SubSeq(t, i, k - 1), k)

ParseLiteral(t, i, word, kind) ==
    IF i + Len(word) - 1 <= Len(t) /\ SubSeq(t, i, i + Len(word) - 1) = word
    THEN Parsed(kind, <<>>, i + Len(word))
    ELSE ParseFail

RECURSIVE ParseValue(_, _)
RECURSIVE ParseMembers(_, _, _)
RECURSIVE ParseElements(_, _, _)

\* i stands on the first character of a value
ParseValue(t, i) ==
    IF i > Len(t) THEN ParseFail
    ELSE CASE t[i] = Quote -> ParseStrBody(t, i + 1, <<>>)
           [] t[i] = "{" ->
                LET j == SkipWs(t, i + 1)
                IN  IF j <= Len(t) /\ t[j] = "}" THEN Parsed("obj", <<>>, j + 1)
                    ELSE ParseMembers(t, j, <<>>)
           [] t[i] = "[" ->
                LET j == SkipWs(t, i + 1)
                IN  IF j <= Len(t) /\ t[j] = "]" THEN Parsed("list", <<>>, j + 1)
                    ELSE ParseElements(t, j, <<>>)
           [] t[i] = "n" -> ParseLiteral(t, i, <<"n", "u", "l", "l">>, "null")
           [] t[i] = "t" -> ParseLiteral(t, i, <<"t", "r", "u", "e">>, "true")
           [] t[i] = "f" -> ParseLiteral(t, i, <<"f", "a", "l", "s", "e">>, "false")
           [] t[i] = "-" \/ t[i] \in AsciiDigits -> ParseNumber(t, i)
           [] OTHER -> ParseFail

\* i stands where a member's key must open
ParseMembers(t, i, acc) ==
    IF i > Len(t) \/ t[i] # Quote THEN ParseFail
    ELSE LET k == ParseStrBody(t, i + 1, <<>>)
         IN  IF ~k.ok THEN ParseFail
             ELSE LET c == SkipWs(t, k.next)
                  IN  IF c > Len(t) \/ t[c] # ":" THEN ParseFail
                      ELSE LET v == ParseValue(t, SkipWs(t, c + 1))
                           IN  IF ~v.ok THEN ParseFail
                               ELSE LET e == SkipWs(t, v.next)
                                        acc2 == Append(acc, <<k.val, [kind |-> v.kind, val |-> v.val]>>)
                                    IN  IF e > Len(t) THEN ParseFail
                                        ELSE IF t[e] = "}" THEN Parsed("obj", acc2, e + 1)
                                        ELSE IF t[e] = "," THEN ParseMembers(t, SkipWs(t, e + 1), acc2)
                                        ELSE ParseFail

\* i stands on the first character of an element
ParseElements(t, i, acc) ==
    LET v == ParseValue(t, i)
    IN  IF ~v.ok THEN ParseFail
        ELSE LET e == SkipWs(t, v.next)
                 acc2 == Append(acc, [kind |-> v.kind, val |-> v.val])
             IN  IF e > Len(t) THEN ParseFail
                 ELSE IF t[e] = "]" THEN Parsed("list", acc2, e + 1)
                 ELSE IF t[e] = "," THEN ParseElements(t, SkipWs(t, e + 1), acc2)
                 ELSE ParseFail

\* json.loads(t): one value, white space around it, nothing else;
\* ok = FALSE stands for json.JSONDecodeError
json_loads(t) ==
    LET v == ParseValue(t, SkipWs(t, 1))
    IN  IF v.ok /\ SkipWs(t, v.next) = Len(t) + 1
        THEN [ok |-> TRUE, kind |-> v.kind, val |-> v.val]
        ELSE [ok |-> FALSE, kind |-> "error", val |-> <<>>]

PyNone == [kind |-> "null", val |-> <<>>]

\* dict.get(key): the last member of that name wins, None when there is none
RECURSIVE DictGet(_, _)
DictGet(members, key) ==
    IF members = <<>> THEN PyNone
    ELSE LET last == members[Len(members)]
         IN  IF last[1] = key THEN last[2]
             ELSE DictGet(SubSeq(members, 1, Len(members) - 1), key)

\* Python truth value of a decoded value
Truthy(v) ==
    CASE v.kind = "null" -> FALSE
      [] v.kind = "false" -> FALSE
      [] v.kind = "true" -> TRUE
      [] v.kind = "num" -> v.val \notin {<<"0">>, <<"-", "0">>}
      [] OTHER -> v.val # <<>>

----------------------------------------------------------------------------
(* config/livekit_config.py *)

Str_telephony_agent ==
    <<"t", "e", "l", "e", "p", "h", "o", "n", "y", "-", "a", "g", "e", "n", "t">>

\* os.getenv("AGENT_NAME") without the default
AGENT_NAME_nodefault(env) == env

\* AGENT_NAME = os.getenv("AGENT_NAME", "telephony-agent"); env is the value of
\* the environment variable, NoText when it is unset
AGENT_NAME(env) == IF env = NoText THEN Str_telephony_agent ELSE env

----------------------------------------------------------------------------
(* services/dispatch_service.py and services/sip_manager.py *)

Str_outbound_call_underscore ==
    <<"o", "u", "t", "b", "o", "u", "n", "d", "_", "c", "a", "l", "l", "_">>

\* line 47: "outbound-call-"
Str_outbound_call_ ==
    <<"o", "u", "t", "b", "o", "u", "n", "d", "-", "c", "a", "l", "l", "-">>
Str_caller_underscore == <<"c", "a", "l", "l", "e", "r", "_">>

\* sip_manager.py line 55: "caller-"
Str_caller_ == <<"c", "a", "l", "l", "e", "r", "-">>

\* `not x` for an optional str argument: None or empty
IsUnset(x) == x = NoText \/ x = <<>>

Request(op, agent, room, metadata, trunk, to, identity, name, id) ==
    [op |-> op, agent_name |-> agent, room |-> room, metadata |-> metadata,
     sip_trunk_id |-> trunk, sip_call_to |-> to,
     participant_identity |-> identity, participant_name |-> name,
     dispatch_id |-> id]

Outcome(raised, reqs, id, room, phone, agent, identity) ==
    [raised |-> raised, reqs |-> reqs,
     result |-> [dispatch_id |-> id, room_name |-> room, phone_number |-> phone,
                 agent_name |-> agent, participant_identity |-> identity]]

NoOutcome == Outcome("", <<>>, 0, NoText, NoText, NoText, NoText)

Args(method, phone, room, agent, trunk, identity, name, id, agent_env) ==
    [method |-> method, phone_number |-> phone, room_name |-> room,
     agent_name |-> agent, trunk_id |-> trunk, participant_identity |-> identity,
     participant_name |-> name, dispatch_id |-> id, AGENT_NAME |-> agent_env]

NoArgs == Args("", NoText, NoText, NoText, NoText, NoText, NoText, 0, NoText)

\* DispatchService.dispatch_outbound_call.  hex is uuid.uuid4().hex[:8], ok
\* whether the create-dispatch request succeeds, id the identifier the
\* platform gives the dispatch, agent_default the module's AGENT_NAME.
dispatch_outbound_call(phone_number, room_name, agent_name, agent_default, hex, ok, id) ==
    LET phone == format_phone_number(phone_number)
        room == IF IsUnset(room_name) THEN Str_outbound_call_ \o hex ELSE room_name
        agent == IF IsUnset(agent_name) THEN agent_default ELSE agent_name
        req == Request("create_dispatch", agent, room, json_dumps_phone(phone),
                       NoText, NoText, NoText, NoText, 0)
    IN  IF ~validate_phone_number(phone)
        THEN Outcome("ValueError", <<>>, 0, NoText, NoText, NoText, NoText)
        ELSE IF ~ok
        THEN Outcome("RemoteError", <<req>>, 0, NoText, NoText, NoText, NoText)
        ELSE Outcome("", <<req>>, id, room, phone, agent, NoText)

\* a delete_dispatch that logs the failure and returns
delete_dispatch_swallows(dispatch_id, room_name, ok) ==
    Outcome("", <<Request("delete_dispatch", NoText, room_name, NoText,
                          NoText, NoText, NoText, NoText, dispatch_id)>>,
            0, NoText, NoText, NoText, NoText)

\* DispatchService.delete_dispatch
delete_dispatch(dispatch_id, room_name, ok) ==
    LET req == Request("delete_dispatch", NoText, room_name, NoText,
                       NoText, NoText, NoText, NoText, dispatch_id)
    IN  IF ~ok
        THEN Outcome("RemoteError", <<req>>, 0, NoText, NoText, NoText, NoText)
        ELSE Outcome("", <<req>>, 0, NoText, NoText, NoText, NoText)

\* a create_outbound_call that validates the normalized number and calls
\* the number as it was given
create_outbound_call_asgiven(phone_number, room_name, trunk_id, participant_identity, participant_name, ok) ==
    LET phone == format_phone_number(phone_number)
        identity == IF IsUnset(participant_identity) THEN Str_caller_ \o phone
                    ELSE participant_identity
        name == IF IsUnset(participant_name) THEN phone ELSE participant_name
        req == Request("create_sip_participant", NoText, room_name, NoText,
                       trunk_id, phone_number, identity, name, 0)
    IN  IF ~validate_phone_number(phone)
        THEN Outcome("ValueError", <<>>, 0, NoText, NoText, NoText, NoText)
        ELSE IF ~ok
        THEN Outcome("RemoteError", <<req>>, 0, NoText, NoText, NoText, NoText)
        ELSE Outcome("", <<req>>, 0, room_name, phone, NoText, identity)

\* SIPManager.create_outbound_call
create_outbound_call(phone_number, room_name, trunk_id, participant_identity, participant_name, ok) ==
    LET phone == format_phone_number(phone_number)
        identity == IF IsUnset(participant_identity) THEN Str_caller_ \o phone
                    ELSE participant_identity
        name == IF IsUnset(participant_name) THEN phone ELSE participant_name
        req == Request("create_sip_participant", NoText, room_name, NoText,
                       trunk_id, phone, identity, name, 0)
    IN  IF ~validate_phone_number(phone)
        THEN Outcome("ValueError", <<>>, 0, NoText, NoText, NoText, NoText)
        ELSE IF ~ok
        THEN Outcome("RemoteError", <<req>>, 0, NoText, NoText, NoText, NoText)
        ELSE Outcome("", <<req>>, 0, room_name, phone, NoText, identity)

\* what the platform holds after a request that it accepted
PlatformAfter(held, out) ==
    IF out.raised # "" \/ out.reqs = <<>> THEN held
    ELSE LET r == out.reqs[1]
         IN  CASE r.op = "create_dispatch" ->
                    held \cup {[id |-> out.result.dispatch_id, room |-> r.room,
                                metadata |-> r.metadata, agent_name |-> r.agent_name]}
               [] r.op = "delete_dispatch" ->
                    {d \in held : ~(d.id = r.dispatch_id /\ d.room = r.room)}
               [] OTHER -> held

\* a fresh dispatch identifier
NextDispatchId(held) == Cardinality(held) + 1

----------------------------------------------------------------------------
(* Inputs of the validator specification *)

MaxPhoneLen == 4

PhoneAlphabet == {"+", "0", "1", "-", LF, U0663}

Str_p14155551234 == <<"+", "1", "4", "1", "5", "5", "5", "5", "1", "2", "3", "4">>
Str_4155551234 == <<"4", "1", "5", "5", "5", "5", "1", "2", "3", "4">>
Str_p0123 == <<"+", "0", "1", "2", "3">>
Str_12345 == <<"1", "2", "3", "4", "5">>
\* 15 digits (the longest valid), 16 digits, and the spec's 18 digits
Str_p15digits == <<"+", "1", "2", "3", "4", "5", "6", "7", "8", "9", "0", "1", "2", "3", "4", "5">>
Str_p16digits == Str_p15digits \o <<"6">>
Str_p18digits == Str_p16digits \o <<"7", "8">>
Str_p14155551234LF == Str_p14155551234 \o <<LF>>
Str_formatted_us == <<"+", "1", " ", "(", "4", "1", "5", ")", " ", "5", "5", "5", "-", "1", "2", "3", "4">>

PhoneExamples ==
    { Str_p14155551234, Str_4155551234, Str_p0123, Str_12345, Str_p15digits,
      Str_p16digits, Str_p18digits, Str_p14155551234LF, Str_formatted_us }

PhoneInputs == SeqsUpTo(PhoneAlphabet, MaxPhoneLen) \cup PhoneExamples

PhoneIdle ==
    /\ ppc = "off"
    /\ praw = NoText
    /\ pfmt = NoText
    /\ pagain = NoText
    /\ pvalid = FALSE

\* format_phone_number(praw)
PhoneFormat ==
    /\ ppc = "input"
    /\ pfmt' = format_phone_number(praw)
    /\ ppc' = "formatted"
    /\ UNCHANGED <<praw, pagain, pvalid>>
    /\ OnlyPhone

\* format_phone_number applied to its own result
PhoneFormatAgain ==
    /\ ppc \in {"formatted", "validated"}
    /\ pagain = NoText
    /\ pagain' = format_phone_number(pfmt)
    /\ UNCHANGED <<ppc, praw, pfmt, pvalid>>
    /\ OnlyPhone

\* validate_phone_number(praw), on the text as supplied
PhoneValidate ==
    /\ ppc = "formatted"
    /\ pvalid' = validate_phone_number(praw)
    /\ ppc' = "validated"
    /\ UNCHANGED <<praw, pfmt, pagain>>
    /\ OnlyPhone

----------------------------------------------------------------------------
(* The worker entrypoint: agent/agent.py and voice_agent.py *)

\* Lines 35-43 (agent.py), 46-54 (voice_agent.py): the local phone_number
\* after the metadata was read, or the exception that escapes.  Only
\* json.JSONDecodeError is caught: .get on a decoded value that is no dict
\* raises AttributeError.
entry_read_metadata(metadata) ==
    IF IsUnset(metadata) THEN [err |-> "", phone |-> PyNone]
    ELSE LET r == json_loads(metadata)
         IN  IF ~r.ok THEN [err |-> "", phone |-> PyNone]
             ELSE IF r.kind # "obj" THEN [err |-> "AttributeError", phone |-> PyNone]
             ELSE [err |-> "", phone |-> DictGet(r.val, Str_phone_number)]

\* `if phone_number is None:`
entry_is_inbound_none(phone) == phone = PyNone

\* `if not phone_number:` at line 81 (agent.py), 88 (voice_agent.py)
entry_is_inbound(phone) == ~Truthy(phone)

WorkerIdle ==
    /\ wpc = "none"
    /\ wentry = "agent"
    /\ wmeta = NoText
    /\ wphone = PyNone
    /\ wsteps = <<>>
    /\ werr = ""
    /\ wgreets = 0
    /\ wevents = <<>>

\* the platform hands a job with this metadata to the entrypoint
JobStarts(entry, metadata) ==
    /\ wpc = "none"
    /\ wpc' = "parse"
    /\ wentry' = entry
    /\ wmeta' = metadata
    /\ UNCHANGED <<wphone, wsteps, werr, wgreets, wevents>>

EntryParse ==
    /\ wpc = "parse"
    /\ LET r == entry_read_metadata(wmeta)
       IN  /\ wphone' = r.phone
           /\ werr' = r.err
           /\ wpc' = IF r.err = "" THEN "connect" ELSE "failed"
    /\ UNCHANGED <<wentry, wmeta, wsteps, wgreets, wevents>>
    /\ OnlyWorker

\* participant events a job is followed through
MaxEvents == 2

\* a connect whose failure does not end the entrypoint
EntryConnect_continues ==
    /\ wpc = "connect"
    /\ \E ok \in BOOLEAN :
        IF ok
        THEN wsteps' = Append(wsteps, "connect") /\ wpc' = "session" /\ werr' = werr
        ELSE wsteps' = wsteps /\ wpc' = "session" /\ werr' = "ConnectError"
    /\ UNCHANGED <<wentry, wmeta, wphone, wgreets, wevents>>
    /\ OnlyWorker

\* await ctx.connect()
EntryConnect ==
    /\ wpc = "connect"
    /\ \E ok \in BOOLEAN :
        IF ok
        THEN wsteps' = Append(wsteps, "connect") /\ wpc' = "session" /\ werr' = werr
        ELSE wsteps' = wsteps /\ wpc' = "failed" /\ werr' = "ConnectError"
    /\ UNCHANGED <<wentry, wmeta, wphone, wgreets, wevents>>
    /\ OnlyWorker

\* AgentSession(...) and await session.start(...)
EntrySessionStart ==
    /\ wpc = "session"
    /\ \E ok \in BOOLEAN :
        IF ok
        THEN /\ wsteps' = Append(wsteps, "session_start")
             /\ wpc' = IF wentry = "agent" THEN "handlers" ELSE "branch"
             /\ werr' = werr
        ELSE wsteps' = wsteps /\ wpc' = "failed" /\ werr' = "SessionError"
    /\ UNCHANGED <<wentry, wmeta, wphone, wgreets, wevents>>
    /\ OnlyWorker

\* ctx.room.on(...) twice: agent/agent.py only.  The two callbacks are
\* coroutine functions; whether the room's emitter accepts them or raises
\* ValueError at the first registration depends on the library.
EntryHandlers ==
    /\ wpc = "handlers"
    /\ \E ok \in BOOLEAN :
        IF ok
        THEN /\ wsteps' = wsteps \o <<"on_participant_connected",
                                      "on_participant_disconnected">>
             /\ wpc' = "branch"
             /\ werr' = werr
        ELSE wsteps' = wsteps /\ wpc' = "failed" /\ werr' = "ValueError"
    /\ UNCHANGED <<wentry, wmeta, wphone, wgreets, wevents>>
    /\ OnlyWorker

\* the inbound / outbound branch and session.generate_reply
EntryBranch ==
    /\ wpc = "branch"
    /\ IF entry_is_inbound(wphone)
       THEN \E ok \in BOOLEAN :
              /\ wgreets' = wgreets + 1
              /\ wsteps' = Append(wsteps, "generate_reply")
              /\ wpc' = IF ok THEN "done" ELSE "failed"
              /\ werr' = IF ok THEN werr ELSE "ReplyError"
       ELSE wgreets' = wgreets /\ wsteps' = wsteps /\ wpc' = "done" /\ werr' = werr
    /\ UNCHANGED <<wentry, wmeta, wphone, wevents>>
    /\ OnlyWorker

HandlersRegistered ==
    \E i \in 1..Len(wsteps) : wsteps[i] = "on_participant_connected"

Count(events, name) == Cardinality({i \in 1..Len(events) : events[i] = name})

\* a participant joins the room and the room emits participant_connected:
\* handlers.py lines 11-14, CallHandlers.on_participant_connected, which logs
OnParticipantConnected ==
    /\ HandlersRegistered
    /\ wpc \in {"branch", "done"}
    /\ Len(wevents) < MaxEvents
    /\ wevents' = Append(wevents, "participant_connected")
    /\ UNCHANGED <<wpc, wentry, wmeta, wphone, wsteps, werr, wgreets>>
    /\ OnlyWorker

\* a participant leaves: handlers.py lines 16-19
OnParticipantDisconnected ==
    /\ HandlersRegistered
    /\ wpc \in {"branch", "done"}
    /\ Len(wevents) < MaxEvents
    /\ Count(wevents, "participant_connected") > Count(wevents, "participant_disconnected")
    /\ wevents' = Append(wevents, "participant_disconnected")
    /\ UNCHANGED <<wpc, wentry, wmeta, wphone, wsteps, werr, wgreets>>
    /\ OnlyWorker

WorkerConnected == \E i \in 1..Len(wsteps) : wsteps[i] = "connect"

----------------------------------------------------------------------------
(* Several jobs in one worker process.  The worker calls entrypoint(ctx) once
   per job; the calls are coroutines of one event loop and interleave at
   every await.  All an entrypoint writes are its locals (phone_number,
   metadata, session): neither agent/agent.py nor voice_agent.py assigns a
   module-level name after import, and CallHandlers has no attributes. *)

\* jobs the worker runs at the same time
NumJobs == 2

JobIds == 1..NumJobs

\* the locals of one call of entrypoint(ctx), before its first statement
NewJob(entry, metadata) ==
    [pc |-> "parse", entry |-> entry, meta |-> metadata, phone |-> PyNone,
     steps |-> <<>>, err |-> "", greets |-> 0]

JobsIdle == jobs = [j \in JobIds |-> [NewJob("agent", NoText) EXCEPT !.pc = "none"]]

\* a parse that keeps phone_number in a module-level name
JobParse_global ==
    /\ \E j \in JobIds :
        /\ jobs[j].pc = "parse"
        /\ LET r == entry_read_metadata(jobs[j].meta)
           IN  jobs' = [k \in JobIds |->
                          IF k = j
                          THEN [jobs[k] EXCEPT !.phone = r.phone, !.err = r.err,
                                               !.pc = IF r.err = "" THEN "connect"
                                                      ELSE "failed"]
                          ELSE [jobs[k] EXCEPT !.phone = r.phone]]
    /\ OnlyJobs

\* lines 36-43 (agent.py), 47-54 (voice_agent.py)
JobParse ==
    /\ \E j \in JobIds :
        /\ jobs[j].pc = "parse"
        /\ LET r == entry_read_metadata(jobs[j].meta)
           IN  jobs' = [jobs EXCEPT ![j].phone = r.phone, ![j].err = r.err,
                                    ![j].pc = IF r.err = "" THEN "connect" ELSE "failed"]
    /\ OnlyJobs

\* await ctx.connect()
JobConnect ==
    /\ \E j \in JobIds, ok \in BOOLEAN :
        /\ jobs[j].pc = "connect"
        /\ jobs' = IF ok
                   THEN [jobs EXCEPT ![j].steps = Append(@, "connect"),
                                     ![j].pc = "session"]
                   ELSE [jobs EXCEPT ![j].pc = "failed", ![j].err = "ConnectError"]
    /\ OnlyJobs

\* AgentSession(...) and await session.start(...)
JobSessionStart ==
    /\ \E j \in JobIds, ok \in BOOLEAN :
        /\ jobs[j].pc = "session"
        /\ jobs' = IF ok
                   THEN [jobs EXCEPT ![j].steps = Append(@, "session_start"),
                                     ![j].pc = IF jobs[j].entry = "agent"
                                               THEN "handlers" ELSE "branch"]
                   ELSE [jobs EXCEPT ![j].pc = "failed", ![j].err = "SessionError"]
    /\ OnlyJobs

\* ctx.room.on(...) twice, agent/agent.py lines 77-78, with coroutine
\* functions: the emitter accepts them or raises ValueError at the first
JobHandlers ==
    /\ \E j \in JobIds, ok \in BOOLEAN :
        /\ jobs[j].pc = "handlers"
        /\ jobs' = IF ok
                   THEN [jobs EXCEPT ![j].steps = @ \o <<"on_participant_connected",
                                                         "on_participant_disconnected">>,
                                     ![j].pc = "branch"]
                   ELSE [jobs EXCEPT ![j].pc = "failed", ![j].err = "ValueError"]
    /\ OnlyJobs

\* lines 81-86 (agent.py), 88-93 (voice_agent.py)
JobBranch ==
    /\ \E j \in JobIds, ok \in BOOLEAN :
        /\ jobs[j].pc = "branch"
        /\ jobs' = IF entry_is_inbound(jobs[j].phone)
                   THEN [jobs EXCEPT ![j].greets = @ + 1,
                                     ![j].steps = Append(@, "generate_reply"),
                                     ![j].pc = IF ok THEN "done" ELSE "failed",
                                     ![j].err = IF ok THEN @ ELSE "ReplyError"]
                   ELSE [jobs EXCEPT ![j].pc = "done"]
    /\ OnlyJobs

----------------------------------------------------------------------------
(* The telephony-provider provisioning scripts: scripts/update_twilio_trunk.py,
   scripts/update_twilio_trunk_auto.py and scripts/setup_twilio_trunk.py.

   The provider holds credential lists (the sid of a list is its position),
   trunks (the sid of a trunk is its position) with their associated
   credential lists, origination URLs and phone numbers, and the numbers of
   the account.  Names and addresses are texts, because the scripts look
   inside them; usernames, passwords and phone numbers are only compared
   for equality and are strings.  An environment value that is not set is
   "" (0 for the trunk sid): the scripts test them with `not`. *)

UpperLetters == <<"A", "B", "C", "D", "E", "F", "G", "H", "I", "J", "K", "L", "M",
                  "N", "O", "P", "Q", "R", "S", "T", "U", "V", "W", "X", "Y", "Z">>
LowerLetters == <<"a", "b", "c", "d", "e", "f", "g", "h", "i", "j", "k", "l", "m",
                  "n", "o", "p", "q", "r", "s", "t", "u", "v", "w", "x", "y", "z">>

\* str.lower() of one character and of a text
LowerChar(c) ==
    IF \E i \in 1..Len(UpperLetters) : UpperLetters[i] = c
    THEN LowerLetters[CHOOSE i \in 1..Len(UpperLetters) : UpperLetters[i] = c]
    ELSE c
Lower(s) == [i \in 1..Len(s) |-> LowerChar(s[i])]

Str_livekit == <<"l", "i", "v", "e", "k", "i", "t">>
Str_LiveKit_SIP_Credentials ==
    <<"L", "i", "v", "e", "K", "i", "t", " ", "S", "I", "P", " ",
      "C", "r", "e", "d", "e", "n", "t", "i", "a", "l", "s">>
Str_LiveKit_SIP_URI ==
    <<"L", "i", "v", "e", "K", "i", "t", " ", "S", "I", "P", " ", "U", "R", "I">>
Str__credentials == <<"-", "c", "r", "e", "d", "e", "n", "t", "i", "a", "l", "s">>
LIVEKIT_SIP_URI ==
    <<"s", "i", "p", ":", "s", "i", "p", ".", "l", "i", "v", "e", "k", "i", "t",
      ".", "c", "l", "o", "u", "d">>

\* config/twilio_config.py, lines 16-24: the message of the ValueError, or ""
validate_twilio_config(env) ==
    IF env.ACCOUNT_SID = "" THEN "TWILIO_ACCOUNT_SID is not set"
    ELSE IF env.AUTH_TOKEN = "" THEN "TWILIO_AUTH_TOKEN is not set"
    ELSE IF env.PHONE_NUMBER = "" THEN "TWILIO_PHONE_NUMBER is not set"
    ELSE ""

\* Client(TWILIO_ACCOUNT_SID, TWILIO_AUTH_TOKEN): the client refuses to be
\* built without credentials, and contacts nobody when it is built
ClientBuilt(env) == env.ACCOUNT_SID # "" /\ env.AUTH_TOKEN # ""

CredList(name, creds) == [friendly_name |-> name, credentials |-> creds]
Cred(username, password) == [username |-> username, password |-> password]
OriginationUrl(sip_url) ==
    [friendly_name |-> Str_LiveKit_SIP_URI, sip_url |-> sip_url,
     priority |-> 1, weight |-> 1, enabled |-> TRUE]
Trunk(name, domain, lists, urls, numbers) ==
    [friendly_name |-> name, domain_name |-> domain, credentials_lists |-> lists,
     origination_urls |-> urls, phone_numbers |-> numbers]
Provider(lists, trunks, numbers) ==
    [credential_lists |-> lists, trunks |-> trunks, incoming_phone_numbers |-> numbers]

\* the mismatching lookup: "livekit" in cl.friendly_name, without lower()
FindLivekitList_cased(lists) ==
    IF \E i \in 1..Len(lists) : Contains(lists[i].friendly_name, Str_livekit)
    THEN CHOOSE i \in 1..Len(lists) :
             /\ Contains(lists[i].friendly_name, Str_livekit)
             /\ \A j \in 1..(i - 1) : ~Contains(lists[j].friendly_name, Str_livekit)
    ELSE 0

\* update_twilio_trunk.py lines 46-52: the first list whose lower-cased name
\* contains "livekit", 0 for None
FindLivekitList(lists) ==
    IF \E i \in 1..Len(lists) : Contains(Lower(lists[i].friendly_name), Str_livekit)
    THEN CHOOSE i \in 1..Len(lists) :
             /\ Contains(Lower(lists[i].friendly_name), Str_livekit)
             /\ \A j \in 1..(i - 1) :
                    ~Contains(Lower(lists[j].friendly_name), Str_livekit)
    ELSE 0

\* a lookup that never finds the credential
cred_exists_never(creds, username) == FALSE

\* line 66: any(c.username == TWILIO_SIP_USERNAME for c in existing_creds)
cred_exists(creds, username) == \E i \in 1..Len(creds) : creds[i].username = username

\* line 82: any(cl.sid == livekit_cred_list.sid for cl in trunk_cred_lists)
cred_list_associated(lists, sid) == \E i \in 1..Len(lists) : lists[i] = sid

\* line 98: any(livekit_sip_uri in url.sip_url for url in existing_urls)
livekit_url_exists(urls, uri) == \E i \in 1..Len(urls) : Contains(urls[i].sip_url, uri)

\* line 117: any(tn.phone_number == TWILIO_PHONE_NUMBER for tn in trunk_numbers)
number_associated(numbers, phone) == \E i \in 1..Len(numbers) : numbers[i] = phone

\* a request about a trunk needs the trunk: the provider answers not-found
TrunkExists(sid) == sid \in 1..Len(tw.trunks)

IsUpdate == tscript \in {"update", "auto"}

\* what the except clause of the script does with an exception: lines 150-152
\* and setup_twilio_trunk.py 118-120 re-raise, the auto script exits with 1
RaisedAs(kind) == IF tscript = "auto" THEN "exit1" ELSE kind

NoLocal == [cl |-> 0, trunk |-> 0]
NoSnap ==
    [before |-> Provider(<<>>, <<>>, {}), state |-> Provider(<<>>, <<>>, {}),
     creates |-> 0, err |-> ""]

TwilioIdle ==
    /\ tpc = "off"
    /\ tscript = "update"
    /\ tenv = [ACCOUNT_SID |-> "", AUTH_TOKEN |-> "", PHONE_NUMBER |-> "",
               SIP_TRUNK_SID |-> 0, SIP_USERNAME |-> "", SIP_PASSWORD |-> ""]
    /\ targs = [livekit_sip_uri |-> <<>>, trunk_name |-> <<>>, domain_name |-> <<>>,
                username |-> "", password |-> ""]
    /\ tw = Provider(<<>>, <<>>, {})
    /\ tlocal = NoLocal
    /\ treqs = <<>>
    /\ tfail = 0
    /\ terr = ""
    /\ trun = 1
    /\ tcreates = 0
    /\ tsnap = NoSnap
    /\ tclean = TRUE

\* One request to the provider and what the script does with its answer.
\* ok: the provider carried the request out.  A request that fails changes
\* nothing at the provider.  swallowed: the failure is caught by the inner
\* try of lines 80-92, which logs a warning and goes on with pcNext.
Requested(op, ok, pcOk, twOk, localOk, created, swallowed, pcNext) ==
    /\ treqs' = Append(treqs, op)
    /\ tfail' = IF ok \/ tfail # 0 THEN tfail ELSE Len(treqs) + 1
    /\ tclean' = (tclean /\ ok)
    /\ tw' = IF ok THEN twOk ELSE tw
    /\ tlocal' = IF ok THEN localOk ELSE tlocal
    /\ tcreates' = IF ok THEN tcreates + created ELSE tcreates
    /\ tpc' = IF ok THEN pcOk ELSE IF swallowed THEN pcNext ELSE "raised"
    /\ terr' = IF ok \/ swallowed THEN terr ELSE RaisedAs("RemoteError")
    /\ UNCHANGED <<tscript, tenv, targs, trun, tsnap>>
    /\ OnlyTwilio

\* where the script goes after each step
AfterCredList == IF IsUpdate THEN "cred_list" ELSE "cred_create"
AfterCred == IF IsUpdate THEN "assoc_list" ELSE "assoc_create"
AfterAssoc == IF IsUpdate THEN "url_list" ELSE "url_create"
\* `if TWILIO_PHONE_NUMBER:` at line 113, setup_twilio_trunk.py line 86
AfterUrl ==
    IF tenv.PHONE_NUMBER = "" THEN "done"
    ELSE IF IsUpdate THEN "num_list" ELSE "num_lookup"

\* lines 34-37; the auto script, lines 24-25, validates nothing
TwStart ==
    /\ tpc = "start"
    /\ LET invalid == tscript # "auto" /\ validate_twilio_config(tenv) # ""
           begun == ~invalid /\ ClientBuilt(tenv)
       IN  /\ tpc' = IF ~begun THEN "raised"
                     ELSE IF IsUpdate THEN "cl_list" ELSE "trunk_create"
           /\ terr' = IF invalid THEN "ValueError"
                      ELSE IF ~begun THEN RaisedAs("TwilioException") ELSE terr
           /\ tlocal' = IF begun /\ IsUpdate
                        THEN [NoLocal EXCEPT !.trunk = tenv.SIP_TRUNK_SID]
                        ELSE NoLocal
    /\ UNCHANGED <<tscript, tenv, targs, tw, treqs, tfail, trun, tcreates, tsnap, tclean>>
    /\ OnlyTwilio

\* setup_twilio_trunk.py lines 46-49
TwCreateTrunk ==
    /\ tpc = "trunk_create"
    /\ \E ok \in BOOLEAN :
        Requested("trunks.create", ok, "cl_create",
                  [tw EXCEPT !.trunks = Append(@, Trunk(targs.trunk_name,
                                            targs.domain_name, <<>>, <<>>, <<>>))],
                  [tlocal EXCEPT !.trunk = Len(tw.trunks) + 1], 1, FALSE, "raised")

\* lines 45-54
TwListCredLists ==
    /\ tpc = "cl_list"
    /\ \E ok \in BOOLEAN :
        LET found == FindLivekitList(tw.credential_lists)
        IN  Requested("credential_lists.list", ok,
                      IF found = 0 THEN "cl_create" ELSE AfterCredList,
                      tw, [tlocal EXCEPT !.cl = found], 0, FALSE, "raised")

\* lines 56-58, setup_twilio_trunk.py lines 54-56
TwCreateCredList ==
    /\ tpc = "cl_create"
    /\ \E ok \in BOOLEAN :
        LET name == IF IsUpdate THEN Str_LiveKit_SIP_Credentials
                    ELSE targs.trunk_name \o Str__credentials
        IN  Requested("credential_lists.create", ok, AfterCredList,
                      [tw EXCEPT !.credential_lists = Append(@, CredList(name, <<>>))],
                      [tlocal EXCEPT !.cl = Len(tw.credential_lists) + 1],
                      1, FALSE, "raised")

\* lines 65-68
TwListCreds ==
    /\ tpc = "cred_list"
    /\ \E ok \in BOOLEAN :
        Requested("credentials.list", ok,
                  IF cred_exists(tw.credential_lists[tlocal.cl].credentials,
                                 tenv.SIP_USERNAME)
                  THEN AfterCred ELSE "cred_create",
                  tw, tlocal, 0, FALSE, "raised")

\* lines 69-72, setup_twilio_trunk.py lines 61-64; the provider refuses a
\* credential without a username or without a password
TwCreateCred ==
    /\ tpc = "cred_create"
    /\ LET username == IF IsUpdate THEN tenv.SIP_USERNAME ELSE targs.username
           password == IF IsUpdate THEN tenv.SIP_PASSWORD ELSE targs.password
       IN  \E ok \in BOOLEAN :
            /\ ok => username # "" /\ password # ""
            /\ Requested("credentials.create", ok, AfterCred,
                         [tw EXCEPT !.credential_lists[tlocal.cl].credentials =
                                        Append(@, Cred(username, password))],
                         tlocal, 1, FALSE, "raised")

\* lines 81-84, inside the inner try
TwListAssoc ==
    /\ tpc = "assoc_list"
    /\ \E ok \in BOOLEAN :
        /\ ok => TrunkExists(tlocal.trunk)
        /\ Requested("credentials_lists.list", ok,
                     IF ok /\ cred_list_associated(
                                  tw.trunks[tlocal.trunk].credentials_lists, tlocal.cl)
                     THEN AfterAssoc ELSE "assoc_create",
                     tw, tlocal, 0, TRUE, AfterAssoc)

\* lines 85-87 inside the inner try, setup_twilio_trunk.py lines 69-71 outside
\* of any
TwCreateAssoc ==
    /\ tpc = "assoc_create"
    /\ \E ok \in BOOLEAN :
        /\ ok => TrunkExists(tlocal.trunk)
        /\ Requested("credentials_lists.create", ok, AfterAssoc,
                     IF ok
                     THEN [tw EXCEPT !.trunks[tlocal.trunk].credentials_lists =
                                         Append(@, tlocal.cl)]
                     ELSE tw,
                     tlocal, 1, IsUpdate, AfterAssoc)

\* lines 97-100
TwListUrls ==
    /\ tpc = "url_list"
    /\ \E ok \in BOOLEAN :
        /\ ok => TrunkExists(tlocal.trunk)
        /\ Requested("origination_urls.list", ok,
                     IF ok /\ livekit_url_exists(
                                  tw.trunks[tlocal.trunk].origination_urls,
                                  targs.livekit_sip_uri)
                     THEN AfterUrl ELSE "url_create",
                     tw, tlocal, 0, FALSE, "raised")

\* lines 101-107, setup_twilio_trunk.py lines 76-82
TwCreateUrl ==
    /\ tpc = "url_create"
    /\ \E ok \in BOOLEAN :
        /\ ok => TrunkExists(tlocal.trunk)
        /\ Requested("origination_urls.create", ok, AfterUrl,
                     IF ok
                     THEN [tw EXCEPT !.trunks[tlocal.trunk].origination_urls =
                                         Append(@, OriginationUrl(targs.livekit_sip_uri))]
                     ELSE tw,
                     tlocal, 1, FALSE, "raised")

\* lines 116-119
TwListNums ==
    /\ tpc = "num_list"
    /\ \E ok \in BOOLEAN :
        /\ ok => TrunkExists(tlocal.trunk)
        /\ Requested("phone_numbers.list", ok,
                     IF ok /\ number_associated(tw.trunks[tlocal.trunk].phone_numbers,
                                                tenv.PHONE_NUMBER)
                     THEN "done" ELSE "num_lookup",
                     tw, tlocal, 0, FALSE, "raised")

\* lines 120-124 and 130-131, setup_twilio_trunk.py lines 88-92 and 99-100:
\* a number the account does not have is a warning, and the run completes
TwLookupNum ==
    /\ tpc = "num_lookup"
    /\ \E ok \in BOOLEAN :
        Requested("incoming_phone_numbers.list", ok,
                  IF tenv.PHONE_NUMBER \in tw.incoming_phone_numbers
                  THEN "num_create" ELSE "done",
                  tw, tlocal, 0, FALSE, "raised")

\* lines 125-128, setup_twilio_trunk.py lines 93-97
TwCreateNum ==
    /\ tpc = "num_create"
    /\ \E ok \in BOOLEAN :
        /\ ok => TrunkExists(tlocal.trunk)
        /\ Requested("phone_numbers.create", ok, "done",
                     IF ok
                     THEN [tw EXCEPT !.trunks[tlocal.trunk].phone_numbers =
                                         Append(@, tenv.PHONE_NUMBER)]
                     ELSE tw,
                     tlocal, 1, FALSE, "raised")

\* the claims speak of a run and of its re-run
RunNumbers == {1, 2}
LastRun == CHOOSE r \in RunNumbers : \A q \in RunNumbers : q <= r

TwEnded == tpc \in {"done", "raised"}

\* the operator runs the script again, with the same environment and the
\* same arguments
TwRerun ==
    /\ TwEnded
    /\ trun \in RunNumbers \ {LastRun}
    /\ trun' = trun + 1
    /\ tsnap' = [before |-> tsnap.before, state |-> tw, creates |-> tcreates, err |-> terr]
    /\ tpc' = "start"
    /\ tlocal' = NoLocal
    /\ treqs' = <<>>
    /\ tfail' = 0
    /\ terr' = ""
    /\ tcreates' = 0
    /\ UNCHANGED <<tscript, tenv, targs, tw, tclean>>
    /\ OnlyTwilio

----------------------------------------------------------------------------
(* The media-platform trunk scripts: scripts/create_inbound_trunk.py and
   scripts/create_outbound_trunk.py.  The platform gives a trunk and a rule
   the next free number as identifier; 0 stands for no identifier. *)

Str__dispatch == <<"-", "d", "i", "s", "p", "a", "t", "c", "h">>

\* a validation that tests the API key before the URL
validate_livekit_config_keyfirst(env) ==
    IF env.LIVEKIT_API_KEY = "" THEN "LIVEKIT_API_KEY is not set"
    ELSE IF env.LIVEKIT_URL = "" THEN "LIVEKIT_URL is not set"
    ELSE IF env.LIVEKIT_API_SECRET = "" THEN "LIVEKIT_API_SECRET is not set"
    ELSE ""

\* config/livekit_config.py, lines 15-23: the message of the ValueError, or ""
validate_livekit_config(env) ==
    IF env.LIVEKIT_URL = "" THEN "LIVEKIT_URL is not set"
    ELSE IF env.LIVEKIT_API_KEY = "" THEN "LIVEKIT_API_KEY is not set"
    ELSE IF env.LIVEKIT_API_SECRET = "" THEN "LIVEKIT_API_SECRET is not set"
    ELSE ""

\* a request message; a field the script does not set has the empty value
\* of its type
TrunkRequest(op, name, numbers, address, username, password, trunk_ids, room_name, agents) ==
    [op |-> op, name |-> name, numbers |-> numbers, allowed_addresses |-> <<>>,
     address |-> address, auth_username |-> username, auth_password |-> password,
     trunk_ids |-> trunk_ids, room_name |-> room_name, agents |-> agents]

\* create_inbound_trunk.py lines 68-79: trunk_ids, name and room_name="" are
\* all the rule is given; AGENT_NAME is only logged, at line 89
dispatch_rule_request(trunk_name, trunk_id) ==
    TrunkRequest("create_sip_dispatch_rule", trunk_name \o Str__dispatch, <<>>, <<>>,
                 "", "", <<trunk_id>>, <<>>, <<>>)

\* create_inbound_trunk.py lines 52-62
inbound_trunk_request(trunk_name, username, password, allowed_numbers) ==
    TrunkRequest("create_sip_inbound_trunk", trunk_name,
                 IF IsUnset(allowed_numbers) THEN <<>> ELSE allowed_numbers,
                 <<>>, username, password, <<>>, <<>>, <<>>)

\* create_outbound_trunk.py lines 55-64
outbound_trunk_request(trunk_name, address, username, password) ==
    TrunkRequest("create_sip_outbound_trunk", trunk_name, <<>>, address,
                 username, password, <<>>, <<>>, <<>>)

NoTrunkResult == [trunk_id |-> 0, dispatch_rule_id |-> 0]

TrunkIdle ==
    /\ kpc = "off"
    /\ kscript = "inbound"
    /\ kenv = [LIVEKIT_URL |-> "", LIVEKIT_API_KEY |-> "", LIVEKIT_API_SECRET |-> "",
               AGENT_NAME |-> NoText]
    /\ kargs = [trunk_name |-> <<>>, address |-> <<>>, username |-> "", password |-> "",
                allowed_numbers |-> NoText]
    /\ kreqs = <<>>
    /\ kheld = [trunks |-> <<>>, rules |-> <<>>]
    /\ ktrunk = 0
    /\ kerr = ""
    /\ kresult = NoTrunkResult
    /\ kcloses = 0

\* lines 40-47: validate_livekit_config(), then the client is built
TrunkStart ==
    /\ kpc = "start"
    /\ IF validate_livekit_config(kenv) # ""
       THEN kpc' = "raised" /\ kerr' = "ValueError"
       ELSE /\ kpc' = IF kscript = "inbound" THEN "create_inbound" ELSE "create_outbound"
            /\ kerr' = kerr
    /\ UNCHANGED <<kscript, kenv, kargs, kreqs, kheld, ktrunk, kresult, kcloses>>
    /\ OnlyTrunk

\* one request and the except clause (lines 99-101) when it fails
TrunkRequested(req, ok, pcOk, heldOk, trunkOk, resultOk) ==
    /\ kreqs' = Append(kreqs, req)
    /\ kheld' = IF ok THEN heldOk ELSE kheld
    /\ ktrunk' = IF ok THEN trunkOk ELSE ktrunk
    /\ kresult' = IF ok THEN resultOk ELSE kresult
    /\ kpc' = IF ok THEN pcOk ELSE "raised"
    /\ kerr' = IF ok THEN kerr ELSE "RemoteError"
    /\ UNCHANGED <<kscript, kenv, kargs, kcloses>>
    /\ OnlyTrunk

\* create_inbound_trunk.py lines 52-64
CreateInboundTrunk ==
    /\ kpc = "create_inbound"
    /\ \E ok \in BOOLEAN :
        LET req == inbound_trunk_request(kargs.trunk_name, kargs.username,
                                         kargs.password, kargs.allowed_numbers)
            id == Len(kheld.trunks) + 1
        IN  TrunkRequested(req, ok, "create_rule",
                           [kheld EXCEPT !.trunks = Append(@, [id |-> id, info |-> req])],
                           id, kresult)

\* a rule step that deletes the trunk again when the rule is refused
CreateDispatchRule_rollback ==
    /\ kpc = "create_rule"
    /\ \E ok \in BOOLEAN :
        LET req == dispatch_rule_request(kargs.trunk_name, ktrunk)
            id == Len(kheld.rules) + 1
        IN  IF ok
            THEN TrunkRequested(req, ok, "close",
                                [kheld EXCEPT !.rules = Append(@, [id |-> id, info |-> req])],
                                ktrunk, [trunk_id |-> ktrunk, dispatch_rule_id |-> id])
            ELSE /\ kreqs' = kreqs \o <<req, TrunkRequest("delete_sip_trunk", <<>>, <<>>, <<>>,
                                                         "", "", <<ktrunk>>, <<>>, <<>>)>>
                 /\ kheld' = [kheld EXCEPT !.trunks = SubSeq(@, 1, Len(@) - 1)]
                 /\ kpc' = "raised"
                 /\ kerr' = "RemoteError"
                 /\ UNCHANGED <<kscript, kenv, kargs, kcloses, ktrunk, kresult>>
                 /\ OnlyTrunk

\* create_inbound_trunk.py lines 68-81
CreateDispatchRule ==
    /\ kpc = "create_rule"
    /\ \E ok \in BOOLEAN :
        LET req == dispatch_rule_request(kargs.trunk_name, ktrunk)
            id == Len(kheld.rules) + 1
        IN  TrunkRequested(req, ok, "close",
                           [kheld EXCEPT !.rules = Append(@, [id |-> id, info |-> req])],
                           ktrunk, [trunk_id |-> ktrunk, dispatch_rule_id |-> id])

\* create_outbound_trunk.py lines 55-66
CreateOutboundTrunk ==
    /\ kpc = "create_outbound"
    /\ \E ok \in BOOLEAN :
        LET req == outbound_trunk_request(kargs.trunk_name, kargs.address,
                                          kargs.username, kargs.password)
            id == Len(kheld.trunks) + 1
        IN  TrunkRequested(req, ok, "close",
                           [kheld EXCEPT !.trunks = Append(@, [id |-> id, info |-> req])],
                           id, [trunk_id |-> id, dispatch_rule_id |-> 0])

\* lines 92-97 (create_outbound_trunk.py 80-84): aclose(), then the return
TrunkClose ==
    /\ kpc = "close"
    /\ kcloses' = kcloses + 1
    /\ kpc' = "done"
    /\ UNCHANGED <<kscript, kenv, kargs, kreqs, kheld, ktrunk, kerr, kresult>>
    /\ OnlyTrunk

----------------------------------------------------------------------------
(* The configuration modules called on their own.  The values are read from
   the environment once, when the module is imported; os.getenv gives None
   for a name that is not set, and `not X` holds for None and for "". *)

Unset == "<unset>"

\* os.getenv(name) as the tests `if not X:` see it: "" when nothing is there
getenv(name) == IF environ[name] = Unset THEN "" ELSE environ[name]

\* livekit_config.py lines 8-10
LivekitConfig ==
    [LIVEKIT_URL |-> getenv("LIVEKIT_URL"), LIVEKIT_API_KEY |-> getenv("LIVEKIT_API_KEY"),
     LIVEKIT_API_SECRET |-> getenv("LIVEKIT_API_SECRET")]

\* twilio_config.py lines 8-10
TwilioConfig ==
    [ACCOUNT_SID |-> getenv("TWILIO_ACCOUNT_SID"), AUTH_TOKEN |-> getenv("TWILIO_AUTH_TOKEN"),
     PHONE_NUMBER |-> getenv("TWILIO_PHONE_NUMBER")]

NoConfigOut == [returned |-> FALSE, message |-> ""]

ConfigIdle ==
    /\ gpc = "off"
    /\ gfn = "livekit"
    /\ environ = [n \in {} |-> Unset]
    /\ gout = NoConfigOut

\* one call of a validation: `return True` or `raise ValueError(message)`
ConfigCalled(message) ==
    /\ gpc = "call"
    /\ gpc' = IF message = "" THEN "returned" ELSE "raised"
    /\ gout' = [returned |-> message = "", message |-> message]
    /\ UNCHANGED <<gfn, environ>>
    /\ OnlyConfig

ValidateLivekitConfig == gfn = "livekit" /\ ConfigCalled(validate_livekit_config(LivekitConfig))

ValidateTwilioConfig == gfn = "twilio" /\ ConfigCalled(validate_twilio_config(TwilioConfig))

----------------------------------------------------------------------------
(* The worker specification: one job, any metadata *)

MaxMetaLen == 3

MetaAlphabet == {"{", "}", "[", "]", Quote, "0", "1", " "}

Str_a == <<"a">>
JsonMember(key, valuetext) == json_dumps_str(key) \o <<":", " ">> \o valuetext
JsonObject(members) == <<"{">> \o members \o <<"}">>
Txt_null == <<"n", "u", "l", "l">>

MetaExamples ==
    { NoText,
      <<"a", "b", "c">>,
      Txt_null,
      <<"t", "r", "u", "e">>,
      <<"5">>,
      json_dumps_str(<<"x">>),
      <<"[", "1", ",", " ", "2", "]">>,
      JsonObject(JsonMember(Str_a, <<"1">>)),
      JsonObject(JsonMember(Str_phone_number, Txt_null)),
      JsonObject(JsonMember(Str_phone_number, json_dumps_str(<<>>))),
      JsonObject(JsonMember(Str_phone_number, <<"0">>)),
      JsonObject(JsonMember(Str_phone_number, <<"7">>)),
      JsonObject(JsonMember(Str_phone_number, json_dumps_str(Str_p14155551234))
                 \o <<",", " ">> \o JsonMember(Str_phone_number, Txt_null)),
      JsonObject(JsonMember(Str_a, <<"1">>) \o <<",", " ">>
                 \o JsonMember(Str_phone_number, json_dumps_str(Str_p14155551234))),
      json_dumps_phone(Str_p14155551234),
      json_dumps_phone(<<"+", "1", U0663>>),
      json_dumps_phone(Str_12345),
      SubSeq(json_dumps_phone(Str_p14155551234), 1, 20) }

MetaInputs == SeqsUpTo(MetaAlphabet, MaxMetaLen) \cup MetaExamples

Entries == {"agent", "voice_agent"}

LkIdle == lkreqs = <<>> /\ dispatches = {}

ServiceIdle == spc = "off" /\ sargs = NoArgs /\ sout = NoOutcome /\ sanswer = "none"

NoCloses == [dispatch_service |-> 0, sip_manager |-> 0, lk |-> 0]

ScriptIdle ==
    /\ cpc = "off"
    /\ cscript = "test_call"
    /\ craw = NoText
    /\ ctrunk = NoText
    /\ cenvtrunk = NoText
    /\ cinfo = NoOutcome.result
    /\ celapsed = 0
    /\ cerr = ""
    /\ ccloses = NoCloses

WorkerInit ==
    /\ wpc = "parse"
    /\ wentry \in Entries
    /\ wmeta \in MetaInputs
    /\ wphone = PyNone
    /\ wsteps = <<>>
    /\ werr = ""
    /\ wgreets = 0
    /\ wevents = <<>>
    /\ PhoneIdle /\ LkIdle /\ ServiceIdle /\ ScriptIdle /\ TwilioIdle /\ TrunkIdle /\ JobsIdle /\ ConfigIdle

WorkerNext ==
    \/ EntryParse
    \/ EntryConnect
    \/ EntrySessionStart
    \/ EntryHandlers
    \/ EntryBranch
    \/ OnParticipantConnected
    \/ OnParticipantDisconnected

SpecWorker == WorkerInit /\ [][WorkerNext]_vars

----------------------------------------------------------------------------
(* The jobs specification: the worker runs NumJobs jobs, each of either
   entrypoint, each with its own metadata, interleaved in any way *)

Str_list == <<"[", "]">>

\* no metadata (an inbound call), the metadata of a dispatch for an outbound
\* call, and a JSON text that is no object
JobMetas == {NoText, json_dumps_phone(Str_p14155551234), Str_list}

JobsInit ==
    /\ jobs \in [JobIds -> {NewJob(entry, m) : entry \in Entries, m \in JobMetas}]
    /\ PhoneIdle /\ WorkerIdle /\ LkIdle /\ ServiceIdle /\ ScriptIdle /\ TwilioIdle
    /\ TrunkIdle /\ ConfigIdle

JobsNext ==
    \/ JobParse
    \/ JobConnect
    \/ JobSessionStart
    \/ JobHandlers
    \/ JobBranch

SpecJobs == JobsInit /\ [][JobsNext]_vars

----------------------------------------------------------------------------
(* The service specification: one method of DispatchService or SIPManager,
   called with any arguments *)

MaxCallLen == 3

CallAlphabet == {"+", "0", "1", "-"}

CallPhones ==
    SeqsUpTo(CallAlphabet, MaxCallLen)
    \cup { Str_p14155551234, Str_12345, Str_p0123, Str_formatted_us,
           Str_p16digits, <<"+", "1", U0663>>, <<"+", "1", "1", LF>> }

\* uuid.uuid4().hex[:8]: two of the 16^8 texts it can be
UuidHex8 ==
    { <<"0", "0", "0", "0", "0", "0", "0", "0">>,
      <<"a", "1", "b", "2", "c", "3", "d", "4">> }

Str_room_a == <<"r", "o", "o", "m", "-", "a">>
Str_agent_x == <<"a", "g", "e", "n", "t", "-", "x">>
Str_agent_env == <<"a", "g", "e", "n", "t", "-", "e">>
Str_ST_arg == <<"S", "T", "_", "a", "r", "g">>
Str_ST_env == <<"S", "T", "_", "e", "n", "v">>
Str_alice == <<"a", "l", "i", "c", "e">>

ServiceCalls ==
    { Args("dispatch_outbound_call", p, r, a, NoText, NoText, NoText, 0, e) :
        p \in CallPhones, r \in {NoText, <<>>, Str_room_a},
        a \in {NoText, <<>>, Str_agent_x}, e \in {NoText, <<>>, Str_agent_env} }
    \cup
    { Args("create_outbound_call", p, Str_room_a, NoText, Str_ST_arg, i, n, 0, NoText) :
        p \in CallPhones, i \in {NoText, <<>>, Str_alice}, n \in {NoText, Str_alice} }
    \cup
    { Args("delete_dispatch", NoText, Str_room_a, NoText, NoText, NoText, NoText, id, NoText) :
        id \in {1, 2} }

ServiceInit ==
    /\ spc = "call"
    /\ sargs \in ServiceCalls
    /\ sout = NoOutcome
    /\ sanswer = "none"
    /\ lkreqs = <<>>
    /\ dispatches =
         IF sargs.method = "delete_dispatch"
         THEN {[id |-> 1, room |-> Str_room_a,
                metadata |-> json_dumps_phone(Str_p14155551234),
                agent_name |-> Str_telephony_agent]}
         ELSE {}
    /\ PhoneIdle /\ WorkerIdle /\ ScriptIdle /\ TwilioIdle /\ TrunkIdle /\ JobsIdle /\ ConfigIdle

Returns(out, ok) ==
    /\ sout' = out
    /\ sanswer' = IF out.reqs = <<>> THEN "none" ELSE IF ok THEN "ok" ELSE "failed"
    /\ lkreqs' = lkreqs \o out.reqs
    /\ dispatches' = PlatformAfter(dispatches, out)
    /\ spc' = "returned"
    /\ UNCHANGED sargs
    /\ OnlyService

SvcDispatch ==
    /\ spc = "call"
    /\ sargs.method = "dispatch_outbound_call"
    /\ \E hex \in UuidHex8, ok \in BOOLEAN :
         Returns(dispatch_outbound_call(sargs.phone_number, sargs.room_name,
                     sargs.agent_name, AGENT_NAME(sargs.AGENT_NAME), hex, ok,
                     NextDispatchId(dispatches)), ok)

SvcCall ==
    /\ spc = "call"
    /\ sargs.method = "create_outbound_call"
    /\ \E ok \in BOOLEAN :
         Returns(create_outbound_call(sargs.phone_number, sargs.room_name,
                     sargs.trunk_id, sargs.participant_identity,
                     sargs.participant_name, ok), ok)

\* the platform refuses to delete a dispatch it does not hold
SvcDelete ==
    /\ spc = "call"
    /\ sargs.method = "delete_dispatch"
    /\ \E ok \in BOOLEAN :
         /\ ok => \E d \in dispatches : d.id = sargs.dispatch_id /\ d.room = sargs.room_name
         /\ Returns(delete_dispatch(sargs.dispatch_id, sargs.room_name, ok), ok)

ServiceNext == SvcDispatch \/ SvcCall \/ SvcDelete

SpecService == ServiceInit /\ [][ServiceNext]_vars

----------------------------------------------------------------------------
(* The test-call scripts: make_test_call (scripts/test_call.py) and
   make_call (test_outbound.py), with the worker the dispatch starts *)

SleepSeconds == 5

\* an exception that leaves the function without the finally clause
Fails_nofinally(err) ==
    /\ cerr' = err
    /\ cpc' = "raised"

\* the exception err ends the try block: make_test_call goes on to its
\* finally clause, make_call has none
Fails(err) ==
    /\ cerr' = err
    /\ cpc' = IF cscript = "test_call" THEN "finally" ELSE "raised"

\* make_test_call, step 1: dispatch_service.dispatch_outbound_call(phone_number)
TestCallDispatch ==
    /\ cpc = "dispatch"
    /\ cscript = "test_call"
    /\ \E hex \in UuidHex8, ok \in BOOLEAN :
         LET out == dispatch_outbound_call(craw, NoText, NoText, AGENT_NAME(NoText),
                                           hex, ok, NextDispatchId(dispatches))
         IN  /\ lkreqs' = lkreqs \o out.reqs
             /\ dispatches' = PlatformAfter(dispatches, out)
             /\ IF out.raised = ""
                THEN cinfo' = out.result /\ cpc' = "sleep" /\ cerr' = cerr
                ELSE cinfo' = cinfo /\ Fails(out.raised)
    /\ UNCHANGED <<cscript, craw, ctrunk, cenvtrunk, celapsed, ccloses>>
    /\ OnlyScript

\* make_call, step 1: lk.agent_dispatch.create_dispatch with the number as given
OutboundDispatch ==
    /\ cpc = "dispatch"
    /\ cscript = "test_outbound"
    /\ \E hex \in UuidHex8, ok \in BOOLEAN :
         LET room == Str_outbound_call_ \o hex
             req == Request("create_dispatch", Str_telephony_agent, room,
                            json_dumps_phone(craw), NoText, NoText, NoText, NoText, 0)
             id == NextDispatchId(dispatches)
             out == IF ok THEN Outcome("", <<req>>, id, room, craw, Str_telephony_agent, NoText)
                    ELSE Outcome("RemoteError", <<req>>, 0, NoText, NoText, NoText, NoText)
         IN  /\ lkreqs' = lkreqs \o out.reqs
             /\ dispatches' = PlatformAfter(dispatches, out)
             /\ IF ok
                THEN cinfo' = out.result /\ cpc' = "sleep" /\ cerr' = cerr
                ELSE cinfo' = cinfo /\ Fails(out.raised)
    /\ UNCHANGED <<cscript, craw, ctrunk, cenvtrunk, celapsed, ccloses>>
    /\ OnlyScript

\* await asyncio.sleep(5): a second passes
SleepTick ==
    /\ cpc = "sleep"
    /\ celapsed < SleepSeconds
    /\ celapsed' = celapsed + 1
    /\ UNCHANGED <<cpc, cscript, craw, ctrunk, cenvtrunk, cinfo, cerr, ccloses>>
    /\ UNCHANGED lkvars
    /\ OnlyScript

\* await asyncio.sleep(5) returns
SleepOver ==
    /\ cpc = "sleep"
    /\ celapsed = SleepSeconds
    /\ cpc' = "call"
    /\ UNCHANGED <<cscript, craw, ctrunk, cenvtrunk, cinfo, celapsed, cerr, ccloses>>
    /\ UNCHANGED lkvars
    /\ OnlyScript

\* make_test_call, step 2: the trunk identifier is resolved, then
\* sip_manager.create_outbound_call
TestCallPlace ==
    /\ cpc = "call"
    /\ cscript = "test_call"
    /\ LET trunk == IF ~IsUnset(ctrunk) THEN ctrunk ELSE cenvtrunk
       IN  IF IsUnset(trunk)
           THEN Fails("ValueError") /\ UNCHANGED lkvars
           ELSE \E ok \in BOOLEAN :
                  LET out == create_outbound_call(craw, cinfo.room_name, trunk,
                                                  NoText, NoText, ok)
                  IN  /\ lkreqs' = lkreqs \o out.reqs
                      /\ dispatches' = PlatformAfter(dispatches, out)
                      /\ IF out.raised = ""
                         THEN cpc' = "finally" /\ cerr' = cerr
                         ELSE Fails(out.raised)
    /\ UNCHANGED <<cscript, craw, ctrunk, cenvtrunk, cinfo, celapsed, ccloses>>
    /\ OnlyScript

\* make_call, step 2: lk.sip.create_sip_participant, then lk.aclose()
OutboundPlace ==
    /\ cpc = "call"
    /\ cscript = "test_outbound"
    /\ \E ok \in BOOLEAN :
         LET req == Request("create_sip_participant", NoText, cinfo.room_name, NoText,
                            cenvtrunk, craw, Str_caller_ \o craw, craw, 0)
         IN  /\ lkreqs' = Append(lkreqs, req)
             /\ IF ok
                THEN /\ cpc' = "done"
                     /\ cerr' = cerr
                     /\ ccloses' = [ccloses EXCEPT !.lk = @ + 1]
                ELSE Fails("RemoteError") /\ ccloses' = ccloses
    /\ UNCHANGED dispatches
    /\ UNCHANGED <<cscript, craw, ctrunk, cenvtrunk, cinfo, celapsed>>
    /\ OnlyScript

\* a finally clause that deletes the dispatch of a run that failed
TestCallFinally_cleans ==
    /\ cpc = "finally"
    /\ ccloses' = [ccloses EXCEPT !.dispatch_service = @ + 1, !.sip_manager = @ + 1]
    /\ cpc' = IF cerr = "" THEN "done" ELSE "raised"
    /\ LET out == delete_dispatch(cinfo.dispatch_id, cinfo.room_name, TRUE)
       IN  IF cerr # "" /\ cinfo.dispatch_id # 0
           THEN lkreqs' = lkreqs \o out.reqs /\ dispatches' = PlatformAfter(dispatches, out)
           ELSE UNCHANGED lkvars
    /\ UNCHANGED <<cscript, craw, ctrunk, cenvtrunk, cinfo, celapsed, cerr>>
    /\ OnlyScript

\* make_test_call: the except clause re-raises, the finally clause closes both
TestCallFinally ==
    /\ cpc = "finally"
    /\ ccloses' = [ccloses EXCEPT !.dispatch_service = @ + 1, !.sip_manager = @ + 1]
    /\ cpc' = IF cerr = "" THEN "done" ELSE "raised"
    /\ UNCHANGED <<cscript, craw, ctrunk, cenvtrunk, cinfo, celapsed, cerr>>
    /\ UNCHANGED lkvars
    /\ OnlyScript

\* the platform hands the dispatched job to a worker running either entrypoint
DispatchedJobStarts ==
    /\ \E d \in dispatches, entry \in Entries : JobStarts(entry, d.metadata)
    /\ UNCHANGED <<pvars, lkvars, svars, cvars, tvars, kvars, jvars, gvars>>

CallInit ==
    /\ cpc = "dispatch"
    /\ cscript \in {"test_call", "test_outbound"}
    /\ craw \in CallPhones
    /\ ctrunk \in (IF cscript = "test_call" THEN {NoText, Str_ST_arg} ELSE {NoText})
    /\ cenvtrunk \in {NoText, Str_ST_env}
    /\ cinfo = NoOutcome.result
    /\ celapsed = 0
    /\ cerr = ""
    /\ ccloses = NoCloses
    /\ PhoneIdle /\ WorkerIdle /\ LkIdle /\ ServiceIdle /\ TwilioIdle /\ TrunkIdle /\ JobsIdle /\ ConfigIdle

CallNext ==
    \/ TestCallDispatch
    \/ OutboundDispatch
    \/ SleepTick
    \/ SleepOver
    \/ TestCallPlace
    \/ OutboundPlace
    \/ TestCallFinally
    \/ DispatchedJobStarts
    \/ EntryParse
    \/ EntryConnect
    \/ EntrySessionStart
    \/ EntryHandlers
    \/ EntryBranch

SpecCall == CallInit /\ [][CallNext]_vars

----------------------------------------------------------------------------
(* The validator specification: format and validate any text *)

PhoneInit ==
    /\ ppc = "input"
    /\ praw \in PhoneInputs
    /\ pfmt = NoText
    /\ pagain = NoText
    /\ pvalid = FALSE
    /\ WorkerIdle /\ LkIdle /\ ServiceIdle /\ ScriptIdle /\ TwilioIdle /\ TrunkIdle /\ JobsIdle /\ ConfigIdle

PhoneNext == PhoneFormat \/ PhoneValidate \/ PhoneFormatAgain

SpecPhone == PhoneInit /\ [][PhoneNext]_vars

----------------------------------------------------------------------------
(* The provisioning specification: a script is run, and run again, against
   a provider in any of the initial states below; every request may fail *)

Str_office == <<"o", "f", "f", "i", "c", "e">>
Str_LIVEKIT == <<"L", "I", "V", "E", "K", "I", "T">>
Str_transport == <<";", "t", "r", "a", "n", "s", "p", "o", "r", "t", "=", "t", "c", "p">>
Str_sip_other == <<"s", "i", "p", ":", "o", "t", "h", "e", "r">>
Str_trunk_a == <<"t", "r", "u", "n", "k", "-", "a">>
Str_livekit_trunk == <<"m", "y", "-", "l", "i", "v", "e", "k", "i", "t">>
Str_domain == <<"a", ".", "p", "s", "t", "n", ".", "t", "w", "i", "l", "i", "o", ".", "c", "o", "m">>

EnvSet ==
    [ACCOUNT_SID |-> "AC1", AUTH_TOKEN |-> "token", PHONE_NUMBER |-> "+15550100",
     SIP_TRUNK_SID |-> 1, SIP_USERNAME |-> "lk_user", SIP_PASSWORD |-> "lk_pass"]

\* the environments with one value left unset
EnvsLacking ==
    { [EnvSet EXCEPT !.ACCOUNT_SID = ""], [EnvSet EXCEPT !.AUTH_TOKEN = ""],
      [EnvSet EXCEPT !.PHONE_NUMBER = ""], [EnvSet EXCEPT !.SIP_TRUNK_SID = 0],
      [EnvSet EXCEPT !.SIP_USERNAME = ""], [EnvSet EXCEPT !.SIP_PASSWORD = ""] }

CredListInits ==
    { <<>>,
      <<CredList(Str_office, <<Cred("lk_user", "lk_pass")>>)>>,
      <<CredList(Str_LIVEKIT, <<>>)>>,
      <<CredList(Str_LIVEKIT, <<Cred("lk_user", "old_pass")>>)>>,
      <<CredList(Str_office, <<>>),
        CredList(Str_LiveKit_SIP_Credentials, <<Cred("other", "x")>>)>>,
      <<CredList(Str_LiveKit_SIP_Credentials, <<Cred("lk_user", "lk_pass")>>),
        CredList(Str_LIVEKIT, <<>>)>> }

UrlInits ==
    { <<>>,
      <<OriginationUrl(LIVEKIT_SIP_URI)>>,
      <<OriginationUrl(LIVEKIT_SIP_URI \o Str_transport)>>,
      <<OriginationUrl(Str_sip_other)>> }

ProviderInits ==
    { Provider(lists, <<Trunk(Str_trunk_a, Str_domain, assoc, urls, nums)>>, account) :
        lists \in CredListInits, assoc \in {<<>>, <<1>>}, urls \in UrlInits,
        nums \in {<<>>, <<"+15550100">>}, account \in {{}, {"+15550100"}} }

\* a trunk is associated only with lists and numbers that exist
ProviderSound(p) ==
    \A t \in 1..Len(p.trunks) :
        /\ \A i \in 1..Len(p.trunks[t].credentials_lists) :
               p.trunks[t].credentials_lists[i] \in 1..Len(p.credential_lists)
        /\ \A i \in 1..Len(p.trunks[t].phone_numbers) :
               p.trunks[t].phone_numbers[i] \in p.incoming_phone_numbers

UpdateArgs ==
    [livekit_sip_uri |-> LIVEKIT_SIP_URI, trunk_name |-> <<>>, domain_name |-> <<>>,
     username |-> "", password |-> ""]
CreateArgs ==
    { [livekit_sip_uri |-> LIVEKIT_SIP_URI, trunk_name |-> name, domain_name |-> Str_domain,
       username |-> "lk_user", password |-> "lk_pass"] :
        name \in {Str_trunk_a, Str_livekit_trunk} }

TwilioInit ==
    /\ tpc = "start"
    /\ tscript \in {"update", "auto", "create"}
    /\ \/ tenv = EnvSet /\ tw \in {p \in ProviderInits : ProviderSound(p)}
       \/ tenv \in EnvsLacking /\ tw = Provider(<<>>, <<Trunk(Str_trunk_a, Str_domain,
                                                         <<>>, <<>>, <<>>)>>, {"+15550100"})
    /\ targs \in IF tscript = "create" THEN CreateArgs ELSE {UpdateArgs}
    /\ tlocal = NoLocal
    /\ treqs = <<>>
    /\ tfail = 0
    /\ terr = ""
    /\ trun = 1
    /\ tcreates = 0
    /\ tsnap = [NoSnap EXCEPT !.before = tw]
    /\ tclean = TRUE
    /\ PhoneIdle /\ WorkerIdle /\ LkIdle /\ ServiceIdle /\ ScriptIdle /\ TrunkIdle /\ JobsIdle /\ ConfigIdle

TwilioNext ==
    \/ TwStart
    \/ TwCreateTrunk
    \/ TwListCredLists
    \/ TwCreateCredList
    \/ TwListCreds
    \/ TwCreateCred
    \/ TwListAssoc
    \/ TwCreateAssoc
    \/ TwListUrls
    \/ TwCreateUrl
    \/ TwListNums
    \/ TwLookupNum
    \/ TwCreateNum
    \/ TwRerun

SpecTwilio == TwilioInit /\ [][TwilioNext]_vars

----------------------------------------------------------------------------
(* The trunk-script specification: one run of create_inbound_trunk or of
   create_outbound_trunk; every request may fail *)

Str_twilio_inbound == <<"t", "w", "i", "l", "i", "o", "-", "i", "n">>

LkEnvSet ==
    [LIVEKIT_URL |-> "wss://lk", LIVEKIT_API_KEY |-> "key", LIVEKIT_API_SECRET |-> "secret",
     AGENT_NAME |-> NoText]

LkEnvs ==
    { [e EXCEPT !.AGENT_NAME = a] :
        e \in { LkEnvSet, [LkEnvSet EXCEPT !.LIVEKIT_URL = ""],
                [LkEnvSet EXCEPT !.LIVEKIT_API_KEY = ""],
                [LkEnvSet EXCEPT !.LIVEKIT_API_SECRET = ""] },
        a \in {NoText, Str_agent_env} }

TrunkArgs ==
    { [trunk_name |-> n, address |-> Str_domain, username |-> u, password |-> "lk_pass",
       allowed_numbers |-> a] :
        n \in {<<>>, Str_twilio_inbound}, u \in {"", "lk_user"},
        a \in {NoText, <<>>, <<"+15550100">>} }

\* what the platform holds before the run
HeldInits ==
    { [trunks |-> <<>>, rules |-> <<>>],
      [trunks |-> <<[id |-> 1, info |-> outbound_trunk_request(Str_trunk_a, Str_domain,
                                                              "lk_user", "lk_pass")]>>,
       rules |-> <<>>] }

TrunkInit ==
    /\ kpc = "start"
    /\ kscript \in {"inbound", "outbound"}
    /\ kenv \in LkEnvs
    /\ kargs \in TrunkArgs
    /\ kreqs = <<>>
    /\ kheld \in HeldInits
    /\ ktrunk = 0
    /\ kerr = ""
    /\ kresult = NoTrunkResult
    /\ kcloses = 0
    /\ PhoneIdle /\ WorkerIdle /\ LkIdle /\ ServiceIdle /\ ScriptIdle /\ TwilioIdle /\ JobsIdle /\ ConfigIdle

TrunkNext ==
    \/ TrunkStart
    \/ CreateInboundTrunk
    \/ CreateDispatchRule
    \/ CreateOutboundTrunk
    \/ TrunkClose

SpecTrunk == TrunkInit /\ [][TrunkNext]_vars

----------------------------------------------------------------------------
(* The configuration specification: either validation, with every name of
   the environment unset, empty or set *)

LivekitNames == <<"LIVEKIT_URL", "LIVEKIT_API_KEY", "LIVEKIT_API_SECRET">>
TwilioNames == <<"TWILIO_ACCOUNT_SID", "TWILIO_AUTH_TOKEN", "TWILIO_PHONE_NUMBER">>

EnvNames == {LivekitNames[i] : i \in 1..3} \cup {TwilioNames[i] : i \in 1..3}

ConfigInit ==
    /\ gpc = "call"
    /\ gfn \in {"livekit", "twilio"}
    /\ environ \in [EnvNames -> {Unset, "", "value"}]
    /\ gout = NoConfigOut
    /\ PhoneIdle /\ WorkerIdle /\ LkIdle /\ ServiceIdle /\ ScriptIdle /\ TwilioIdle
    /\ TrunkIdle /\ JobsIdle

ConfigNext ==
    \/ ValidateLivekitConfig
    \/ ValidateTwilioConfig

SpecConfig == ConfigInit /\ [][ConfigNext]_vars

----------------------------------------------------------------------------
(* Claims *)

\* '+', a first digit 1-9, then 1 to 14 characters that are digits
PlusAndDigits(s) ==
    /\ Len(s) \in 3..16
    /\ s[1] = "+"
    /\ s[2] \in NonZeroAsciiDigits
    /\ \A i \in 3..Len(s) : s[i] \in AsciiDigits \cup {U0663}

ServiceCallReturned ==
    /\ spc = "returned"
    /\ sargs.method \in {"dispatch_outbound_call", "create_outbound_call"}

\* C1 (as amended): when the normalized form of the number given to
\* dispatch_outbound_call or create_outbound_call is not '+', a digit 1-9 and
\* 1 to 14 further digits, the method raises ValueError and no request was
\* issued to the platform.
C1_InvalidNormalizedRejected ==
    (ServiceCallReturned /\ ~PlusAndDigits(format_phone_number(sargs.phone_number)))
        => (sout.raised = "ValueError" /\ lkreqs = <<>>)

\* C1 witness: create_outbound_call("+0123") has raised ValueError.
C1_Witness ==
    /\ ServiceCallReturned
    /\ sargs.method = "create_outbound_call"
    /\ sargs.phone_number = Str_p0123
    /\ sout.raised = "ValueError"
    /\ lkreqs = <<>>

\* C1 (as stated): a number that is not in valid international format as
\* supplied is rejected with ValueError and no request is issued.
C1_InvalidAsSuppliedRejected ==
    (ServiceCallReturned /\ ~IsE164(sargs.phone_number))
        => (sout.raised = "ValueError" /\ lkreqs = <<>>)

\* metadata from which no phone number can be recovered: absent, empty, not
\* JSON, JSON that is no record, or a record without the field
C2_NoNumberIn(metadata) ==
    \/ IsUnset(metadata)
    \/ ~json_loads(metadata).ok
    \/ json_loads(metadata).kind # "obj"
    \/ \A i \in 1..Len(json_loads(metadata).val) :
          json_loads(metadata).val[i][1] # Str_phone_number

\* C2: whatever the job metadata, reading it does not fail; with no number in
\* it the job is inbound: the entrypoint goes on to connect, start the session
\* and, when it completes, has generated the greeting once.
C2_MetadataTolerated ==
    (wpc # "parse" /\ C2_NoNumberIn(wmeta))
        => /\ werr # "AttributeError"
           /\ entry_is_inbound(wphone)
           /\ wpc = "done" => (wgreets = 1 /\ WorkerConnected)

\* C3: a create-SIP-participant request is issued only after the dispatch
\* succeeded and the dispatched worker has connected to the room.
C3_CallAfterWorkerJoined ==
    \A i \in 1..Len(lkreqs) :
        lkreqs[i].op = "create_sip_participant"
            => (cinfo.dispatch_id # 0 /\ WorkerConnected)

CreateRequests ==
    {"credential_lists.create", "credentials.create", "credentials_lists.create",
     "origination_urls.create", "phone_numbers.create"}

\* C4: when update_twilio_trunk (or the auto script) is run again with the
\* same inputs and no request has failed in either run, the second run issues
\* no create request and leaves the provider as the first run left it.
C4_RerunCreatesNothing ==
    (IsUpdate /\ trun # 1 /\ tclean)
        => /\ \A i \in 1..Len(treqs) : treqs[i] \notin CreateRequests
           /\ tcreates = 0
           /\ tw = tsnap.state

\* C4 witness: the first run created all five entries, and the second run
\* completed after its five lookups.
C4_Witness ==
    /\ IsUpdate /\ trun # 1 /\ tclean
    /\ tpc = "done"
    /\ tsnap.creates = Cardinality(CreateRequests)
    /\ Len(treqs) = Cardinality(CreateRequests)

\* C5: in create_twilio_trunk and update_twilio_trunk, the request that fails
\* is the last request of the run, and the run ends by raising the error.
C5_FailureAborts ==
    (tscript \in {"create", "update"} /\ tfail # 0)
        => /\ Len(treqs) = tfail
           /\ tpc = "raised"
           /\ terr = "RemoteError"

\* C6: in update_twilio_trunk and the auto script, with one of the account
\* SID, auth token, phone number, trunk SID, SIP username and SIP password
\* unset, no request is issued and the run does not complete.
C6_ConfigErrorBeforeRequests ==
    (IsUpdate /\ tenv \in EnvsLacking) => (treqs = <<>> /\ tpc # "done")

\* C7: in make_test_call, once the worker has read the metadata of the
\* dispatch, its phone_number is the text dispatch_outbound_call normalized,
\* the job is outbound and no greeting is ever generated.
C7_MetadataRoundTrip ==
    (cscript = "test_call" /\ wpc \notin {"none", "parse"})
        => /\ werr # "AttributeError"
           /\ wphone = [kind |-> "str", val |-> cinfo.phone_number]
           /\ PlusAndDigits(wphone.val)
           /\ ~entry_is_inbound(wphone)
           /\ wgreets = 0

\* C7 witness: the worker ran to completion on the metadata of a dispatch for
\* "+1" followed by U+0663, which json.dumps writes as an escape.
C7_Witness ==
    /\ cscript = "test_call"
    /\ wpc = "done"
    /\ craw = <<"+", "1", U0663>>
    /\ wphone.val = <<"+", "1", U0663>>
    /\ wgreets = 0

\* the phone number a request carries
C8_NumberOf(r) ==
    IF r.op = "create_sip_participant" THEN r.sip_call_to
    ELSE DictGet(json_loads(r.metadata).val, Str_phone_number).val

\* C8: no create-dispatch and no create-SIP-participant request carries a
\* number that has not passed the format check.
C8_OnlyValidatedNumbers ==
    \A i \in 1..Len(lkreqs) :
        lkreqs[i].op \in {"create_dispatch", "create_sip_participant"}
            => validate_phone_number(C8_NumberOf(lkreqs[i]))

\* C9: format_phone_number(s) is '+' followed by the digits of s, in order,
\* and nothing else.
C9_FormatIsPlusDigits ==
    ppc # "input" => pfmt = <<"+">> \o FilterSeq(praw, AsciiDigits \cup {U0663})

\* C10: validate_phone_number(s) is true exactly when s is '+', a digit 1-9
\* and 1 to 14 further digits, with nothing before or after.
C10_ValidateIffE164 ==
    ppc = "validated" => (pvalid <=> IsE164(praw))

\* C11: format_phone_number applied to its own result returns that result.
C11_FormatIdempotent ==
    pagain # NoText => pagain = pfmt

\* C11 witness: a text with a digit that the first application changed has
\* been formatted twice.
C11_Witness ==
    /\ pagain # NoText
    /\ pfmt # praw
    /\ \E i \in 1..Len(praw) : praw[i] \in AsciiDigits

DispatchReturned ==
    /\ spc = "returned"
    /\ sargs.method = "dispatch_outbound_call"
    /\ sout.raised = ""

\* C12: a dispatch_outbound_call that returned has issued one request, a
\* create-dispatch; the record it returned carries the identifier the platform
\* gave the dispatch and the room, the agent name and (in the metadata) the
\* number of that request; with no agent name supplied the agent is the
\* value of AGENT_NAME in the environment, "telephony-agent" when it is unset.
C12_DispatchResult ==
    DispatchReturned
        => /\ Len(lkreqs) = 1
           /\ lkreqs[1].op = "create_dispatch"
           /\ \E d \in dispatches :
                  /\ d.id = sout.result.dispatch_id
                  /\ d.room = sout.result.room_name
                  /\ d.agent_name = sout.result.agent_name
           /\ sout.result.room_name = lkreqs[1].room
           /\ sout.result.agent_name = lkreqs[1].agent_name
           /\ entry_read_metadata(lkreqs[1].metadata) =
                  [err |-> "", phone |-> [kind |-> "str", val |-> sout.result.phone_number]]
           /\ sout.result.phone_number = format_phone_number(sargs.phone_number)
           /\ IsUnset(sargs.agent_name)
                  => sout.result.agent_name =
                         IF sargs.AGENT_NAME = NoText THEN Str_telephony_agent
                         ELSE sargs.AGENT_NAME

\* C12 witness: a dispatch with no agent name and AGENT_NAME unset returned,
\* for a number that normalization changed.
C12_Witness ==
    /\ DispatchReturned
    /\ IsUnset(sargs.agent_name)
    /\ sargs.AGENT_NAME = NoText
    /\ sout.result.phone_number # sargs.phone_number

\* C13: a call of dispatch_outbound_call, delete_dispatch or
\* create_outbound_call issues at most one request; when the platform fails
\* it, that is the only request, the method raises the error, returns no
\* result, and the platform holds what it held.
C13_OneRequestNoRetry ==
    spc = "returned"
        => /\ Len(lkreqs) <= 1
           /\ sanswer = "failed"
                  => /\ Len(lkreqs) = 1
                     /\ sout.raised = "RemoteError"
                     /\ sout.result = NoOutcome.result
                     /\ sargs.method # "delete_dispatch" => dispatches = {}
                     /\ sargs.method = "delete_dispatch" => Cardinality(dispatches) = 1

\* C13 witness: the platform failed the delete-dispatch request.
C13_Witness ==
    /\ spc = "returned"
    /\ sargs.method = "delete_dispatch"
    /\ sanswer = "failed"

\* the characters of uuid.uuid4().hex
LowerHexChars == AsciiDigits \cup {"a", "b", "c", "d", "e", "f"}

C14_Generated(room) ==
    /\ Len(room) = Len(Str_outbound_call_) + 8
    /\ StartsWith(room, <<"o", "u", "t", "b", "o", "u", "n", "d", "-", "c", "a", "l", "l", "-">>)
    /\ \A i \in (Len(room) - 7)..Len(room) : room[i] \in LowerHexChars

\* C14: the room of the create-dispatch request of dispatch_outbound_call is
\* "outbound-call-" and 8 hexadecimal characters when no room name, or an
\* empty one, was given, and the given room name otherwise; the record
\* returned carries the same room.
C14_RoomName ==
    (spc = "returned" /\ sargs.method = "dispatch_outbound_call" /\ lkreqs # <<>>)
        => /\ IF IsUnset(sargs.room_name)
              THEN C14_Generated(lkreqs[1].room)
              ELSE lkreqs[1].room = sargs.room_name
           /\ sout.raised = "" => sout.result.room_name = lkreqs[1].room

\* C14 witness: a dispatch called with the empty room name returned.
C14_Witness ==
    /\ DispatchReturned
    /\ sargs.room_name = <<>>

\* C15: the create-SIP-participant request of create_outbound_call carries
\* the given trunk and room, the normalized number as the call target, the
\* given identity or, when none was given, "caller-" and the normalized
\* number, and the given name or, when none was given, the normalized number.
C15_ParticipantDefaults ==
    (spc = "returned" /\ sargs.method = "create_outbound_call" /\ lkreqs # <<>>)
        => LET r == lkreqs[1]
               phone == format_phone_number(sargs.phone_number)
           IN  /\ r.op = "create_sip_participant"
               /\ r.sip_trunk_id = sargs.trunk_id
               /\ r.room = sargs.room_name
               /\ r.sip_call_to = phone
               /\ r.participant_identity =
                      IF IsUnset(sargs.participant_identity)
                      THEN <<"c", "a", "l", "l", "e", "r", "-">> \o phone
                      ELSE sargs.participant_identity
               /\ r.participant_name =
                      IF IsUnset(sargs.participant_name) THEN phone
                      ELSE sargs.participant_name

\* C15 witness: a call placed with neither identity nor name, for a number
\* that normalization changed, returned.
C15_Witness ==
    /\ spc = "returned" /\ sargs.method = "create_outbound_call"
    /\ sout.raised = ""
    /\ sargs.participant_identity = NoText /\ sargs.participant_name = NoText
    /\ format_phone_number(sargs.phone_number) # sargs.phone_number

\* C16: create_inbound_trunk issues the create-dispatch-rule request only
\* after the create-inbound-trunk request succeeded; the rule lists exactly
\* the trunk the platform returned, has the empty room name, and names the
\* agent of the configuration as the agent to dispatch.
C16_RuleBindsTrunkToAgent ==
    \A i \in 1..Len(kreqs) :
        kreqs[i].op = "create_sip_dispatch_rule"
            => /\ i = 2
               /\ kreqs[1].op = "create_sip_inbound_trunk"
               /\ kheld.trunks # <<>>
               /\ kheld.trunks[Len(kheld.trunks)].info = kreqs[1]
               /\ kreqs[i].trunk_ids = <<kheld.trunks[Len(kheld.trunks)].id>>
               /\ kreqs[i].room_name = <<>>
               /\ kreqs[i].agents = <<AGENT_NAME(kenv.AGENT_NAME)>>

\* what one run of update_twilio_trunk in which no request fails leaves at
\* the provider p
C17_CleanRun(p, env, uri) ==
    LET found == FindLivekitList(p.credential_lists)
        cl == IF found = 0 THEN Len(p.credential_lists) + 1 ELSE found
        t == env.SIP_TRUNK_SID
        p1 == IF found # 0 THEN p
              ELSE [p EXCEPT !.credential_lists =
                                 Append(@, CredList(Str_LiveKit_SIP_Credentials, <<>>))]
        p2 == IF cred_exists(p1.credential_lists[cl].credentials, env.SIP_USERNAME) THEN p1
              ELSE [p1 EXCEPT !.credential_lists[cl].credentials =
                                  Append(@, Cred(env.SIP_USERNAME, env.SIP_PASSWORD))]
        p3 == IF cred_list_associated(p2.trunks[t].credentials_lists, cl) THEN p2
              ELSE [p2 EXCEPT !.trunks[t].credentials_lists = Append(@, cl)]
        p4 == IF livekit_url_exists(p3.trunks[t].origination_urls, uri) THEN p3
              ELSE [p3 EXCEPT !.trunks[t].origination_urls = Append(@, OriginationUrl(uri))]
    IN  IF env.PHONE_NUMBER = ""
           \/ number_associated(p4.trunks[t].phone_numbers, env.PHONE_NUMBER)
           \/ env.PHONE_NUMBER \notin p4.incoming_phone_numbers
        THEN p4
        ELSE [p4 EXCEPT !.trunks[t].phone_numbers = Append(@, env.PHONE_NUMBER)]

C17_RerunAfterAbort ==
    /\ tscript = "update"
    /\ trun # 1
    /\ tsnap.err = "RemoteError"
    /\ tpc = "done"
    /\ tfail = 0

\* C17: when update_twilio_trunk was aborted by a failed request and is run
\* again with the same inputs and no failed request, the provider ends in
\* the state that one run without failure leaves from the initial state.
C17_RerunReachesCleanState ==
    C17_RerunAfterAbort
        => tw = C17_CleanRun(tsnap.before, tenv, targs.livekit_sip_uri)

\* C17 witness: the first run was aborted after it had created entries, and
\* the re-run created the rest.
C17_Witness ==
    /\ C17_RerunAfterAbort
    /\ tsnap.creates > 0
    /\ tcreates > 0

\* C18: create_twilio_trunk looks up each entry before it creates one: when
\* it is run again with the same inputs and no request has failed in either
\* run, the second run creates nothing and the provider holds what the first
\* run left, one trunk and one credential list of that name among it.
C18_CreateIsFindOrCreate ==
    (tscript = "create" /\ trun # 1 /\ tclean)
        => /\ \A i \in 1..Len(treqs) :
                  treqs[i] \notin CreateRequests \cup {"trunks.create"}
           /\ tcreates = 0
           /\ tw = tsnap.state

C19_NoNumber == wphone.kind = "null" \/ (wphone.kind = "str" /\ wphone.val = <<>>)
C19_Number == wphone.kind = "str" /\ wphone.val # <<>>

C20_AgentSteps ==
    <<"connect", "session_start", "on_participant_connected",
      "on_participant_disconnected", "generate_reply">>

\* the steps done so far are the first steps of the order of agent.py
C20_InOrder ==
    /\ Len(wsteps) <= Len(C20_AgentSteps)
    /\ wsteps = SubSeq(C20_AgentSteps, 1, Len(wsteps))
    /\ werr = "ConnectError" => wsteps = <<>>
    /\ werr = "SessionError" => wsteps = <<"connect">>
    /\ wevents # <<>> => Len(wsteps) >= 4

\* C20: in agent/agent.py the steps of a job are done in the order connect,
\* session start, registration of the two callbacks, greeting; once connect
\* or session start has failed no step is done; and a callback that runs
\* changes nothing of the job.
C20_StepOrder ==
    /\ [](wentry = "agent" => C20_InOrder)
    /\ [][ /\ wpc = "failed" => (wsteps' = wsteps /\ wgreets' = wgreets)
           /\ wevents' # wevents =>
                  UNCHANGED <<wpc, wentry, wmeta, wphone, wsteps, werr, wgreets>> ]_vars

\* C20 witness: a job of agent.py greeted after registering the callbacks,
\* and a participant joined and left.
C20_Witness ==
    /\ wentry = "agent"
    /\ wsteps = C20_AgentSteps
    /\ wevents = <<"participant_connected", "participant_disconnected">>

C21_FailedAfterDispatch ==
    /\ cscript = "test_call"
    /\ cinfo.dispatch_id # 0
    /\ cerr # ""

\* C21: when make_test_call fails after its dispatch succeeded, it issues no
\* delete-dispatch request, the platform keeps the dispatch, and the run
\* ends by raising the error.
C21_NoCleanupOnFailure ==
    C21_FailedAfterDispatch
        => /\ \A i \in 1..Len(lkreqs) : lkreqs[i].op # "delete_dispatch"
           /\ \E d \in dispatches :
                  d.id = cinfo.dispatch_id /\ d.room = cinfo.room_name
           /\ cpc \in {"finally", "raised"}

\* C21 witness: no trunk identifier could be resolved after the dispatch, and
\* the run has raised.
C21_Witness ==
    /\ C21_FailedAfterDispatch
    /\ cerr = "ValueError"
    /\ cpc = "raised"

C22_Named(creds, username) == {i \in 1..Len(creds) : creds[i].username = username}

\* C22: after update_twilio_trunk has completed without raising, the
\* credential list it used holds exactly one credential with the configured
\* SIP username, and the password of that credential is the configured SIP
\* password.
C22_CredentialConfigured ==
    (/\ tscript = "update"
     /\ tpc = "done"
     /\ tenv.SIP_USERNAME # ""
     /\ tenv.SIP_PASSWORD # "")
        => LET creds == tw.credential_lists[tlocal.cl].credentials
               named == C22_Named(creds, tenv.SIP_USERNAME)
           IN  /\ Cardinality(named) = 1
               /\ \A i \in named : creds[i].password = tenv.SIP_PASSWORD

\* C23: after update_twilio_trunk has completed without raising, the trunk
\* has an origination URL whose address equals the given SIP address, with
\* priority 1, weight 1 and enabled, and the run has issued at most one
\* request that creates an origination URL.
C23_OriginationUrlPresent ==
    (IsUpdate /\ tpc = "done")
        => LET urls == tw.trunks[tlocal.trunk].origination_urls
           IN  /\ \E i \in 1..Len(urls) :
                      /\ urls[i].sip_url = targs.livekit_sip_uri
                      /\ urls[i].priority = 1
                      /\ urls[i].weight = 1
                      /\ urls[i].enabled
               /\ Cardinality({i \in 1..Len(treqs) :
                                  treqs[i] = "origination_urls.create"}) <= 1

C24_RuleRefused ==
    /\ kscript = "inbound"
    /\ kerr = "RemoteError"
    /\ Len(kreqs) >= 2

\* C24: the trunk scripts of the media platform undo nothing.  They issue
\* create requests only; when the dispatch rule is refused after the inbound
\* trunk was created, the error is raised, the rule request is the last one
\* and the platform keeps the trunk; the outbound script issues at most its
\* one request and raises when that request fails.
C24_NoRollback ==
    /\ \A i \in 1..Len(kreqs) :
           kreqs[i].op \in {"create_sip_inbound_trunk", "create_sip_dispatch_rule",
                            "create_sip_outbound_trunk"}
    /\ C24_RuleRefused
           => /\ kpc = "raised"
              /\ Len(kreqs) = 2
              /\ kreqs[2].op = "create_sip_dispatch_rule"
              /\ \E i \in 1..Len(kheld.trunks) :
                     kheld.trunks[i] = [id |-> ktrunk, info |-> kreqs[1]]
              /\ kheld.rules = <<>>
    /\ kscript = "outbound"
           => /\ Len(kreqs) <= 1
              /\ \A i \in 1..Len(kreqs) : kreqs[i].op = "create_sip_outbound_trunk"
              /\ (kerr = "RemoteError") => kpc = "raised" /\ Len(kreqs) = 1

\* C24 witness: the rule was refused after the trunk had been created.
C24_Witness ==
    /\ C24_RuleRefused
    /\ kpc = "raised"
    /\ ktrunk # 0

\* what the entrypoint decides for a job, computed from the job's metadata
C25_OwnPhone(j) == entry_read_metadata(jobs[j].meta).phone

C25_Greeted(j) == \E i \in 1..Len(jobs[j].steps) : jobs[j].steps[i] = "generate_reply"

C25_JobOwnsDecision(j) ==
    /\ jobs[j].pc \notin {"none", "parse"} => jobs[j].phone = C25_OwnPhone(j)
    /\ jobs[j].greets = IF C25_Greeted(j) THEN 1 ELSE 0
    /\ C25_Greeted(j) => entry_is_inbound(C25_OwnPhone(j))
    /\ jobs[j].pc = "done" => (C25_Greeted(j) <=> entry_is_inbound(C25_OwnPhone(j)))

\* C25: however the jobs of one worker interleave, the inbound / outbound
\* decision and the greeting of each job are those its own metadata gives,
\* and a step of one job changes nothing of another job.
C25_JobsIsolated ==
    /\ [](\A j \in JobIds : C25_JobOwnsDecision(j))
    /\ [][\E j \in JobIds : \A k \in JobIds \ {j} : jobs'[k] = jobs[k]]_vars

\* C25 witness: an inbound job has greeted and an outbound job has ended
\* without a greeting, in one worker.
C25_Witness ==
    \E j, k \in JobIds :
        /\ jobs[j].pc = "done" /\ jobs[j].meta = NoText /\ jobs[j].greets = 1
        /\ jobs[k].pc = "done" /\ jobs[k].meta # NoText /\ jobs[k].greets = 0
        /\ jobs[k].phone = [kind |-> "str", val |-> Str_p14155551234]

C26_Names == IF gfn = "livekit" THEN LivekitNames ELSE TwilioNames

C26_Missing(name) == environ[name] \in {Unset, ""}

\* the first name, in the order of the validation, that has no value
C26_FirstMissing ==
    C26_Names[CHOOSE i \in 1..3 :
                  /\ C26_Missing(C26_Names[i])
                  /\ \A h \in 1..(i - 1) : ~C26_Missing(C26_Names[h])]

C26_Message ==
    [LIVEKIT_URL |-> "LIVEKIT_URL is not set",
     LIVEKIT_API_KEY |-> "LIVEKIT_API_KEY is not set",
     LIVEKIT_API_SECRET |-> "LIVEKIT_API_SECRET is not set",
     TWILIO_ACCOUNT_SID |-> "TWILIO_ACCOUNT_SID is not set",
     TWILIO_AUTH_TOKEN |-> "TWILIO_AUTH_TOKEN is not set",
     TWILIO_PHONE_NUMBER |-> "TWILIO_PHONE_NUMBER is not set"]

\* C26: validate_livekit_config returns True exactly when URL, API key and
\* API secret are all set and not empty, and otherwise raises the error that
\* names the first of them, in this order, that is missing;
\* validate_twilio_config does the same for account SID, auth token and
\* phone number; and a call changes nothing of the environment.
C26_Validation ==
    /\ [](gpc \in {"returned", "raised"} =>
            IF \A i \in 1..3 : ~C26_Missing(C26_Names[i])
            THEN gpc = "returned" /\ gout = [returned |-> TRUE, message |-> ""]
            ELSE /\ gpc = "raised"
                 /\ gout = [returned |-> FALSE, message |-> C26_Message[C26_FirstMissing]])
    /\ [][environ' = environ]_vars

\* C26 witness: the URL is set, the API key is empty and the secret is not
\* set, and the error names the API key.
C26_Witness ==
    /\ gpc = "raised"
    /\ gfn = "livekit"
    /\ environ["LIVEKIT_URL"] = "value"
    /\ environ["LIVEKIT_API_KEY"] = ""
    /\ environ["LIVEKIT_API_SECRET"] = Unset
    /\ gout.message = "LIVEKIT_API_KEY is not set"

C27_PlaceRequests == {i \in 1..Len(lkreqs) : lkreqs[i].op = "create_sip_participant"}

\* C27: in make_test_call every create-SIP-participant request follows the
\* create-dispatch request of the run that succeeded, names the room of that
\* dispatch, and calls the phone number that the metadata of that dispatch
\* decodes to.
C27_CallMatchesDispatch ==
    cscript = "test_call"
        => \A i \in C27_PlaceRequests :
              /\ i = 2
              /\ lkreqs[1].op = "create_dispatch"
              /\ \E d \in dispatches :
                     /\ d.id = cinfo.dispatch_id
                     /\ d.room = lkreqs[1].room
                     /\ d.metadata = lkreqs[1].metadata
                     /\ lkreqs[i].room = d.room
                     /\ entry_read_metadata(d.metadata) =
                            [err |-> "", phone |-> [kind |-> "str",
                                                    val |-> lkreqs[i].sip_call_to]]

\* C27 witness: the call was requested for a number that was given with
\* separators and normalized.
C27_Witness ==
    /\ cscript = "test_call"
    /\ C27_PlaceRequests # {}
    /\ craw = Str_formatted_us
    /\ \A i \in C27_PlaceRequests : lkreqs[i].sip_call_to # craw

C28_Exited == cpc \in {"done", "raised"}

\* C28: make_test_call calls close() once on the DispatchService and once
\* on the SIPManager on every way out and not before; no request is issued
\* once they are closed; and a run that failed ends by raising after the
\* two calls.
C28_ClosedOnEveryExit ==
    /\ [](cscript = "test_call" =>
            /\ C28_Exited => (ccloses.dispatch_service = 1 /\ ccloses.sip_manager = 1)
            /\ ~C28_Exited => (ccloses.dispatch_service = 0 /\ ccloses.sip_manager = 0)
            /\ cpc = "raised" <=> (C28_Exited /\ cerr # "")
            /\ cpc = "done" <=> (C28_Exited /\ cerr = ""))
    /\ [][(cscript = "test_call" /\ (ccloses' # ccloses \/ ccloses.dispatch_service > 0))
              => (lkreqs' = lkreqs /\ cerr' = cerr)]_vars

\* C28 witness: the platform refused the call after the dispatch, and the
\* run has closed both services and raised.
C28_Witness ==
    /\ cscript = "test_call"
    /\ cpc = "raised"
    /\ cerr = "RemoteError"
    /\ Len(lkreqs) = 2
    /\ ccloses.dispatch_service = 1
    /\ ccloses.sip_manager = 1

C29_FlowStep(step) == step \in {"connect", "session_start", "generate_reply"}

C29_Ended(j) == jobs[j].pc \in {"done", "failed"}

\* the platform refused nothing the job asked of it
C29_Served(j) == jobs[j].err \notin {"ConnectError", "SessionError", "ReplyError"}

\* C29: a job of agent/agent.py and a job of voice_agent.py with the same
\* metadata, both served by the platform at every step, end alike: the same
\* phone number and inbound / outbound decision, both failed or both done
\* with the same error, and the same sequence of connect, session start and
\* greeting.
C29_EntrypointsEquivalent ==
    \A j, k \in JobIds :
        (/\ jobs[j].entry = "agent" /\ jobs[k].entry = "voice_agent"
         /\ jobs[j].meta = jobs[k].meta
         /\ C29_Ended(j) /\ C29_Ended(k)
         /\ C29_Served(j) /\ C29_Served(k))
            => /\ jobs[j].phone = jobs[k].phone
               /\ jobs[j].pc = jobs[k].pc
               /\ jobs[j].err = jobs[k].err
               /\ jobs[j].greets = jobs[k].greets
               /\ SelectSeq(jobs[j].steps, C29_FlowStep) =
                      SelectSeq(jobs[k].steps, C29_FlowStep)

====
